---------------------------- MODULE Spec2Model ----------------------------
(***************************************************************************)
(* A model of the forensic distracted-driving analyzer                     *)
(* (src/forensic_analyzer): the merger of timeline events and location     *)
(* fixes, the event classifier, the app-session pairing, the speed         *)
(* computation and the orchestrator's command-line run.                    *)
(*                                                                         *)
(* Conventions                                                             *)
(*   - a timestamp is an integer number of seconds;                        *)
(*   - a latitude / longitude is an integer number of millidegrees;        *)
(*   - a speed is an integer number of milli-mph (so 120 mph = 120000);    *)
(*   - NaN stands for pandas' missing numeric value (NaN / None);          *)
(*   - a DataFrame is a record [is_none, rows]: is_none models Python's    *)
(*     None, rows is the sequence of the frame's rows in row order, and    *)
(*     each row carries its pandas index label in the field "index".       *)
(***************************************************************************)
EXTENDS Integers, Sequences, FiniteSets, TLC

VARIABLES
    pc,                 \* position of the run / of the call under check
    timeline_data,      \* load_data: the event stream the timeline loader returned
    location_data,      \* load_data: the fix stream the location loader returned
    merged_data,        \* ForensicAnalysisOrchestrator.merged_data
    search_log,         \* index labels of the events the nearest-fix search ran for
    classify_args,      \* classify_forensic_event: the call's arguments
    forensic_priority,  \* classify_forensic_event: the returned tag
    df,                 \* the frame passed to the analyzer method under check
    result_df,          \* the frame that method returned
    app_sessions,       \* AppSessionAnalyzer.app_sessions
    speeds,             \* the list _calculate_speeds returned
    collision_time,     \* ForensicAnalysisOrchestrator.collision_time
    phone_collision_time,       \* PhoneUsageAnalyzer.collision_time
    phone_while_driving,        \* run_analysis: phone events at driving speed
    app_sessions_while_driving, \* run_analysis: sessions at driving speed
    exit_code,          \* what main returned (-1: it has not returned)
    uncaught,           \* an exception left main
    args,               \* main: the parsed command line (--tolerance, --window)
    session_collision_time,     \* AppSessionAnalyzer.collision_time
    stage_log,          \* the orchestrator stages main has called, with results
    timeline_sheet,     \* load_timeline: the rows read_excel read
    location_sheet,     \* load_locations: the rows read_excel read
    skipped_events,     \* load_timeline: the rows it counted as skipped
    skipped_bad_coords, \* load_locations: the rows it counted as skipped
    critical_sessions,  \* what get_critical_sessions returned
    movement_points     \* analyze_movement_patterns: its location_events

vars == <<pc, timeline_data, location_data, merged_data, search_log,
          classify_args, forensic_priority, df, result_df, app_sessions, speeds,
          collision_time, phone_collision_time, phone_while_driving,
          app_sessions_while_driving, exit_code, uncaught, args,
          session_collision_time, stage_log, timeline_sheet, location_sheet,
          skipped_events, skipped_bad_coords, critical_sessions,
          movement_points>>

loadVars == <<timeline_sheet, location_sheet, skipped_events, skipped_bad_coords>>

movementVars == <<movement_points>>

mergeVars == <<timeline_data, location_data, merged_data, search_log>>

classifyVars == <<classify_args, forensic_priority>>

callVars == <<df, result_df, app_sessions, speeds>>

runVars == <<collision_time, phone_collision_time, phone_while_driving,
             app_sessions_while_driving, exit_code, uncaught, args,
             session_collision_time, stage_log, critical_sessions>>

-----------------------------------------------------------------------------
(* Values *)

NaN == -999999

IsNa(x) == x = NaN

Abs(x) == IF x < 0 THEN 0 - x ELSE x

NoFrame == [is_none |-> TRUE, rows |-> <<>>]

Frame(rows) == [is_none |-> FALSE, rows |-> rows]

IsEmpty(frame) == Len(frame.rows) = 0

\* The rows of s whose position is in keep, in row order.
RowsAt(s, keep) ==
    LET F[i \in 0..Len(s)] ==
            IF i = 0 THEN <<>>
            ELSE IF i \in keep THEN Append(F[i - 1], s[i]) ELSE F[i - 1]
    IN  F[Len(s)]

\* DataFrame.drop_duplicates(subset, keep = 'first'); keys[i] is the value of
\* the subset columns in row i.
DropDuplicates(s, keys) ==
    RowsAt(s, {i \in 1..Len(s) : \A j \in 1..(i - 1) : keys[j] # keys[i]})

-----------------------------------------------------------------------------
(* Text.  A string of the program is a TLA+ string; Chars gives its          *)
(* characters, so that str.lower() and the substring test `p in s` are       *)
(* computed character by character.                                          *)

Chars ==
       "" :> <<>> @@
       "nan" :> <<"n", "a", "n">> @@
       "Call" :> <<"C", "a", "l", "l">> @@
       "Call Log" :> <<"C", "a", "l", "l", " ", "L", "o", "g">> @@
       "Phone" :> <<"P", "h", "o", "n", "e">> @@
       "SMS Messages" :> <<"S", "M", "S", " ", "M", "e", "s", "s", "a", "g", "e", "s">> @@
       "Instant Messages" :> <<"I", "n", "s", "t", "a", "n", "t", " ", "M", "e", "s", "s", "a", "g", "e", "s">> @@
       "Social Media" :> <<"S", "o", "c", "i", "a", "l", " ", "M", "e", "d", "i", "a">> @@
       "Device Notifications" :> <<"D", "e", "v", "i", "c", "e", " ", "N", "o", "t", "i", "f", "i", "c", "a", "t", "i", "o", "n", "s">> @@
       "Log Entries" :> <<"L", "o", "g", " ", "E", "n", "t", "r", "i", "e", "s">> @@
       "Network Connections" :> <<"N", "e", "t", "w", "o", "r", "k", " ", "C", "o", "n", "n", "e", "c", "t", "i", "o", "n", "s">> @@
       "Applications Usage Log" :> <<"A", "p", "p", "l", "i", "c", "a", "t", "i", "o", "n", "s", " ", "U", "s", "a", "g", "e", " ", "L", "o", "g">> @@
       "Web History" :> <<"W", "e", "b", " ", "H", "i", "s", "t", "o", "r", "y">> @@
       "Incoming" :> <<"I", "n", "c", "o", "m", "i", "n", "g">> @@
       "Outgoing" :> <<"O", "u", "t", "g", "o", "i", "n", "g">> @@
       "incoming" :> <<"i", "n", "c", "o", "m", "i", "n", "g">> @@
       "Missed call notification" :> <<"M", "i", "s", "s", "e", "d", " ", "c", "a", "l", "l", " ", "n", "o", "t", "i", "f", "i", "c", "a", "t", "i", "o", "n">> @@
       "Snapchat story" :> <<"S", "n", "a", "p", "c", "h", "a", "t", " ", "s", "t", "o", "r", "y">> @@
       "Opened Instagram" :> <<"O", "p", "e", "n", "e", "d", " ", "I", "n", "s", "t", "a", "g", "r", "a", "m">> @@
       "Unlocked" :> <<"U", "n", "l", "o", "c", "k", "e", "d">> @@
       "Instagram" :> <<"I", "n", "s", "t", "a", "g", "r", "a", "m">> @@
       "Snapchat" :> <<"S", "n", "a", "p", "c", "h", "a", "t">> @@
       "Facebook" :> <<"F", "a", "c", "e", "b", "o", "o", "k">> @@
       "TikTok" :> <<"T", "i", "k", "T", "o", "k">> @@
       "Twitter" :> <<"T", "w", "i", "t", "t", "e", "r">> @@
       "WhatsApp" :> <<"W", "h", "a", "t", "s", "A", "p", "p">> @@
       "Telegram" :> <<"T", "e", "l", "e", "g", "r", "a", "m">> @@
       "YouTube" :> <<"Y", "o", "u", "T", "u", "b", "e">> @@
       "Spotify" :> <<"S", "p", "o", "t", "i", "f", "y">> @@
       "Maps" :> <<"M", "a", "p", "s">> @@
       "Browser" :> <<"B", "r", "o", "w", "s", "e", "r">> @@
       "Notifications" :> <<"N", "o", "t", "i", "f", "i", "c", "a", "t", "i", "o", "n", "s">> @@
       "Network" :> <<"N", "e", "t", "w", "o", "r", "k">> @@
       "System" :> <<"S", "y", "s", "t", "e", "m">> @@
       "Messages" :> <<"M", "e", "s", "s", "a", "g", "e", "s">> @@
       "Unknown" :> <<"U", "n", "k", "n", "o", "w", "n">> @@
       "call" :> <<"c", "a", "l", "l">> @@
       "phone" :> <<"p", "h", "o", "n", "e">> @@
       "outgoing" :> <<"o", "u", "t", "g", "o", "i", "n", "g">> @@
       "sms" :> <<"s", "m", "s">> @@
       "message" :> <<"m", "e", "s", "s", "a", "g", "e">> @@
       "instant message" :> <<"i", "n", "s", "t", "a", "n", "t", " ", "m", "e", "s", "s", "a", "g", "e">> @@
       "social media" :> <<"s", "o", "c", "i", "a", "l", " ", "m", "e", "d", "i", "a">> @@
       "snapchat" :> <<"s", "n", "a", "p", "c", "h", "a", "t">> @@
       "instagram" :> <<"i", "n", "s", "t", "a", "g", "r", "a", "m">> @@
       "facebook" :> <<"f", "a", "c", "e", "b", "o", "o", "k">> @@
       "twitter" :> <<"t", "w", "i", "t", "t", "e", "r">> @@
       "tiktok" :> <<"t", "i", "k", "t", "o", "k">> @@
       "whatsapp" :> <<"w", "h", "a", "t", "s", "a", "p", "p">> @@
       "telegram" :> <<"t", "e", "l", "e", "g", "r", "a", "m">> @@
       "youtube" :> <<"y", "o", "u", "t", "u", "b", "e">> @@
       "spotify" :> <<"s", "p", "o", "t", "i", "f", "y">> @@
       "maps" :> <<"m", "a", "p", "s">> @@
       "navigation" :> <<"n", "a", "v", "i", "g", "a", "t", "i", "o", "n">> @@
       "chrome" :> <<"c", "h", "r", "o", "m", "e">> @@
       "safari" :> <<"s", "a", "f", "a", "r", "i">> @@
       "browser" :> <<"b", "r", "o", "w", "s", "e", "r">> @@
       "notification" :> <<"n", "o", "t", "i", "f", "i", "c", "a", "t", "i", "o", "n">> @@
       "network" :> <<"n", "e", "t", "w", "o", "r", "k">> @@
       "log" :> <<"l", "o", "g">> @@
       "call log" :> <<"c", "a", "l", "l", " ", "l", "o", "g">> @@
       "alert" :> <<"a", "l", "e", "r", "t">> @@
       "device notifications" :> <<"d", "e", "v", "i", "c", "e", " ", "n", "o", "t", "i", "f", "i", "c", "a", "t", "i", "o", "n", "s">> @@
       "log entries" :> <<"l", "o", "g", " ", "e", "n", "t", "r", "i", "e", "s">> @@
       "network connections" :> <<"n", "e", "t", "w", "o", "r", "k", " ", "c", "o", "n", "n", "e", "c", "t", "i", "o", "n", "s">> @@
       "system" :> <<"s", "y", "s", "t", "e", "m">> @@
       "connection" :> <<"c", "o", "n", "n", "e", "c", "t", "i", "o", "n">>

LowerChar(c) ==
    CASE c = "A" -> "a" [] c = "B" -> "b" [] c = "C" -> "c" [] c = "D" -> "d"
      [] c = "E" -> "e" [] c = "F" -> "f" [] c = "H" -> "h" [] c = "I" -> "i"
      [] c = "L" -> "l" [] c = "M" -> "m" [] c = "N" -> "n" [] c = "O" -> "o"
      [] c = "P" -> "p" [] c = "S" -> "s" [] c = "T" -> "t" [] c = "U" -> "u"
      [] c = "W" -> "w" [] c = "Y" -> "y" [] OTHER -> c

\* str.lower()
StrLower(cs) == [i \in 1..Len(cs) |-> LowerChar(cs[i])]

\* `p in t` on character sequences
IsSubstring(p, t) ==
    \E i \in 0..(Len(t) - Len(p)) : SubSeq(t, i + 1, i + Len(p)) = p

\* For each string, the strings of the vocabulary its lower-case form contains.
MentionsTable ==
    [t \in DOMAIN Chars |->
        {p \in DOMAIN Chars : IsSubstring(Chars[p], StrLower(Chars[t]))}]

\* `pattern in str(text).lower()`
Mentions(text, pattern) == pattern \in MentionsTable[text]

\* any(pattern in text.lower() for pattern in patterns)
MentionsAny(text, patterns) == \E p \in patterns : Mentions(text, p)

-----------------------------------------------------------------------------
(* data/parsers.py : AppNameExtractor *)

\* APP_PATTERNS, in the dictionary's insertion order
APP_PATTERNS ==
    << <<"snapchat", "Snapchat">>, <<"instagram", "Instagram">>,
       <<"facebook", "Facebook">>, <<"tiktok", "TikTok">>,
       <<"twitter", "Twitter">>, <<"whatsapp", "WhatsApp">>,
       <<"telegram", "Telegram">>, <<"youtube", "YouTube">>,
       <<"spotify", "Spotify">>, <<"maps", "Maps">>,
       <<"navigation", "Maps">>, <<"chrome", "Browser">>,
       <<"safari", "Browser">>, <<"browser", "Browser">>,
       <<"notification", "Notifications">>, <<"network", "Network">>,
       <<"log", "System">> >>

\* AppNameExtractor.extract_app_name
ExtractAppName(description, event_type) ==
    LET combined_text == StrLower(Chars[description]) \o <<" ">>
                            \o StrLower(Chars[event_type])
        hits == {i \in 1..Len(APP_PATTERNS) :
                    IsSubstring(Chars[APP_PATTERNS[i][1]], combined_text)}
    IN  IF hits # {}
        THEN APP_PATTERNS[CHOOSE i \in hits : \A k \in hits : i <= k][2]
        ELSE IF MentionsAny(event_type, {"call", "phone"}) THEN "Phone"
        ELSE IF MentionsAny(event_type, {"sms", "message"}) THEN "Messages"
        ELSE "Unknown"

-----------------------------------------------------------------------------
(* data/parsers.py : ForensicEventClassifier *)

_is_call_event(event_str, dir_str) ==
    /\ Mentions(event_str, "call") \/ Mentions(event_str, "phone")
    /\ Mentions(dir_str, "incoming") \/ Mentions(dir_str, "outgoing")

_is_message_event(event_str) ==
    MentionsAny(event_str, {"sms", "message", "instant message"})

social_apps == {"snapchat", "instagram", "facebook", "twitter", "tiktok"}

media_apps == {"youtube", "spotify", "browser", "chrome", "safari"}

_is_social_media_event(event_str, desc_str, app_str) ==
    \/ Mentions(event_str, "social media")
    \/ MentionsAny(app_str, social_apps)
    \/ MentionsAny(desc_str, social_apps)
    \/ MentionsAny(app_str, media_apps)

_is_notification_event(event_str) ==
    MentionsAny(event_str, {"notification", "alert", "device notifications"})

_is_background_event(event_str) ==
    MentionsAny(event_str,
                {"log entries", "network connections", "system", "connection"})

\* A mutant of classify_forensic_event: the social-media rule is tried
\* before the message rule.
ClassifySocialBeforeMessage(event_type_str, description_str, direction_str, app_name) ==
    IF _is_call_event(event_type_str, direction_str) THEN "call_active"
    ELSE IF _is_social_media_event(event_type_str, description_str, app_name)
        THEN "social_media_active"
    ELSE IF _is_message_event(event_type_str) THEN "sms_active"
    ELSE IF Mentions(event_type_str, "call log") THEN "call_active"
    ELSE IF _is_notification_event(event_type_str) THEN "notification_passive"
    ELSE IF _is_background_event(event_type_str) THEN "system_background"
    ELSE "default"

\* A mutant of classify_forensic_event: the `'call log' in event_str` branch
\* is missing.
ClassifyWithoutCallLog(event_type_str, description_str, direction_str, app_name) ==
    IF _is_call_event(event_type_str, direction_str) THEN "call_active"
    ELSE IF _is_message_event(event_type_str) THEN "sms_active"
    ELSE IF _is_social_media_event(event_type_str, description_str, app_name)
        THEN "social_media_active"
    ELSE IF _is_notification_event(event_type_str) THEN "notification_passive"
    ELSE IF _is_background_event(event_type_str) THEN "system_background"
    ELSE "default"

\* ForensicEventClassifier.classify_forensic_event
classify_forensic_event(event_type_str, description_str, direction_str, app_name) ==
    IF _is_call_event(event_type_str, direction_str) THEN "call_active"
    ELSE IF _is_message_event(event_type_str) THEN "sms_active"
    ELSE IF _is_social_media_event(event_type_str, description_str, app_name)
        THEN "social_media_active"
    ELSE IF Mentions(event_type_str, "call log") THEN "call_active"
    ELSE IF _is_notification_event(event_type_str) THEN "notification_passive"
    ELSE IF _is_background_event(event_type_str) THEN "system_background"
    ELSE "default"

-----------------------------------------------------------------------------
(* config/settings.py *)

location_match_tolerance_minutes == 5

-----------------------------------------------------------------------------
(* data/loaders.py : DataMerger *)

\* `not pd.isna(event['latitude']) and not pd.isna(event['longitude'])`
HasOwnCoordinates(event) == ~IsNa(event.latitude) /\ ~IsNa(event.longitude)

\* The row the merger appends for an event: the event's fields with the
\* resolved latitude, longitude, accuracy and location_source.
MergedRow(event, lat, lon, acc, src) ==
    [index           |-> event.index,
     timestamp       |-> event.timestamp,
     time_annotation |-> event.time_annotation,
     event_type      |-> event.event_type,
     direction       |-> event.direction,
     details         |-> event.details,
     app_name        |-> event.app_name,
     latitude        |-> lat,
     longitude       |-> lon,
     accuracy        |-> acc,
     location_source |-> src]

\* A mutant of TimelineOnlyRow: the row is tagged 'no_location'.
NoLocationRow(event) ==
    [index           |-> event.index,
     timestamp       |-> event.timestamp,
     time_annotation |-> event.time_annotation,
     event_type      |-> event.event_type,
     direction       |-> event.direction,
     details         |-> event.details,
     app_name        |-> event.app_name,
     latitude        |-> event.latitude,
     longitude       |-> event.longitude,
     location_source |-> "no_location"]

\* A row of timeline_df.copy() with location_source = 'timeline_only': the
\* frame gets no accuracy column on this path.
TimelineOnlyRow(event) ==
    [index           |-> event.index,
     timestamp       |-> event.timestamp,
     time_annotation |-> event.time_annotation,
     event_type      |-> event.event_type,
     direction       |-> event.direction,
     details         |-> event.details,
     app_name        |-> event.app_name,
     latitude        |-> event.latitude,
     longitude       |-> event.longitude,
     location_source |-> "timeline_only"]

\* abs(location_df['timestamp'] - event_time)
TimeDiffs(locs, event_time) ==
    [i \in 1..Len(locs) |-> Abs(locs[i].timestamp - event_time)]

\* A variant of IdxMin: the last position holding the minimum.
IdxMinLast(diffs) ==
    CHOOSE i \in DOMAIN diffs :
        /\ \A k \in DOMAIN diffs : diffs[i] <= diffs[k]
        /\ \A k \in DOMAIN diffs : k > i => diffs[k] > diffs[i]

\* Series.idxmin(): the first position holding the minimum.
IdxMin(diffs) ==
    CHOOSE i \in DOMAIN diffs :
        /\ \A k \in DOMAIN diffs : diffs[i] <= diffs[k]
        /\ \A k \in DOMAIN diffs : k < i => diffs[k] > diffs[i]

\* A mutant of WithinTolerance: the comparison is strict.
WithinToleranceStrict(diff, tolerance_minutes) == diff < tolerance_minutes * 60

\* `time_diffs[closest_idx] <= tolerance`, tolerance = Timedelta(minutes = m)
WithinTolerance(diff, tolerance_minutes) == diff <= tolerance_minutes * 60

\* The nearest-fix search of one event (the loop body after `continue`).
NearestFixRow(event, locs, tolerance_minutes) ==
    IF Len(locs) # 0
    THEN LET time_diffs  == TimeDiffs(locs, event.timestamp)
             closest_idx == IdxMin(time_diffs)
         IN  IF WithinTolerance(time_diffs[closest_idx], tolerance_minutes)
             THEN MergedRow(event, locs[closest_idx].latitude,
                            locs[closest_idx].longitude,
                            locs[closest_idx].accuracy, "location_tracking")
             ELSE MergedRow(event, NaN, NaN, NaN, "no_location")
    ELSE MergedRow(event, NaN, NaN, NaN, "no_location")

\* A mutant of MergeOne: the `continue` is lost, so the search also runs for
\* an event that carries its own coordinates.
MergeOneNoContinue(event, locs, tolerance_minutes) ==
    [row      |-> NearestFixRow(event, locs, tolerance_minutes),
     searched |-> TRUE]

\* One iteration of the merge loop: the appended row, and whether the
\* iteration computed time_diffs (the nearest-fix search).
MergeOne(event, locs, tolerance_minutes) ==
    IF HasOwnCoordinates(event)
    THEN [row      |-> MergedRow(event, event.latitude, event.longitude,
                                 NaN, "timeline_data"),
          searched |-> FALSE]
    ELSE [row      |-> NearestFixRow(event, locs, tolerance_minutes),
          searched |-> TRUE]

\* subset = ['timestamp', 'event_type', 'details']
MergeKey(row) == <<row.timestamp, row.event_type, row.details>>

\* DataMerger.merge_timeline_and_locations: the returned frame's rows, and
\* the index labels of the events a nearest-fix search was made for.
MergeTimelineAndLocations(timeline_df, location_df, tolerance_minutes) ==
    IF location_df.is_none \/ IsEmpty(location_df)
    THEN [rows     |-> [i \in 1..Len(timeline_df.rows) |->
                            TimelineOnlyRow(timeline_df.rows[i])],
          searched |-> {}]
    ELSE LET one(i) == MergeOne(timeline_df.rows[i], location_df.rows,
                                tolerance_minutes)
             merged_events == [i \in 1..Len(timeline_df.rows) |-> one(i).row]
         IN  [rows     |-> DropDuplicates(merged_events,
                                      [i \in 1..Len(merged_events) |->
                                          MergeKey(merged_events[i])]),
              searched |-> {timeline_df.rows[i].index :
                               i \in {k \in 1..Len(timeline_df.rows) :
                                          one(k).searched}}]

-----------------------------------------------------------------------------
(* analysis/app_sessions.py : AppSessionAnalyzer *)

session_window_seconds == 3600

\* A mutant of IsMatchingEnd: the end may carry the start's own timestamp.
IsMatchingEndNotStrict(end_event, start_event) ==
    /\ end_event.app_name = start_event.app_name
    /\ end_event.timestamp >= start_event.timestamp
    /\ end_event.timestamp <= start_event.timestamp + session_window_seconds

\* The mask of matching_ends: same app, strictly after the start, within 1 hour.
IsMatchingEnd(end_event, start_event) ==
    /\ end_event.app_name = start_event.app_name
    /\ end_event.timestamp > start_event.timestamp
    /\ end_event.timestamp <= start_event.timestamp + session_window_seconds

\* A mutant of TakeEnd: the last matching end is taken.
TakeLastEnd(matching_ends) == matching_ends[Len(matching_ends)]

\* `matching_ends.iloc[0]`
TakeEnd(matching_ends) == matching_ends[1]

\* The dictionary appended to app_sessions for a start event and its end.
\* start_row and end_row are bookkeeping: the index labels of the two events.
SessionOf(start_event, end_event) ==
    [app_name         |-> start_event.app_name,
     start_time       |-> start_event.timestamp,
     end_time         |-> end_event.timestamp,
     duration_seconds |-> end_event.timestamp - start_event.timestamp,
     start_lat        |-> start_event.latitude,
     start_lon        |-> start_event.longitude,
     end_lat          |-> end_event.latitude,
     end_lon          |-> end_event.longitude,
     event_type       |-> start_event.event_type,
     details          |-> start_event.details,
     start_row        |-> start_event.index,
     end_row          |-> end_event.index]

\* A variant of PairSessions that reserves ends: an end event taken by one
\* session is not offered to the starts after it.
PairSessionsReserved(rows) ==
    LET start_events == RowsAt(rows, {i \in 1..Len(rows) :
                                         rows[i].time_annotation = "start"})
        end_events   == RowsAt(rows, {i \in 1..Len(rows) :
                                         rows[i].time_annotation = "end"})
        free_ends(start_event, sessions) ==
            RowsAt(end_events,
                   {i \in 1..Len(end_events) :
                       /\ IsMatchingEnd(end_events[i], start_event)
                       /\ \A n \in 1..Len(sessions) :
                              sessions[n].end_row # end_events[i].index})
        F[n \in 0..Len(start_events)] ==
            IF n = 0 THEN <<>>
            ELSE IF Len(free_ends(start_events[n], F[n - 1])) # 0
                 THEN Append(F[n - 1],
                             SessionOf(start_events[n],
                                       TakeEnd(free_ends(start_events[n], F[n - 1]))))
                 ELSE F[n - 1]
    IN  F[Len(start_events)]

\* The loop over start_events: the sessions, in the order of the starts.
PairSessions(rows) ==
    LET start_events == RowsAt(rows, {i \in 1..Len(rows) :
                                         rows[i].time_annotation = "start"})
        end_events   == RowsAt(rows, {i \in 1..Len(rows) :
                                         rows[i].time_annotation = "end"})
        matching_ends(start_event) ==
            RowsAt(end_events, {i \in 1..Len(end_events) :
                                   IsMatchingEnd(end_events[i], start_event)})
        F[n \in 0..Len(start_events)] ==
            IF n = 0 THEN <<>>
            ELSE IF Len(matching_ends(start_events[n])) # 0
                 THEN Append(F[n - 1],
                             SessionOf(start_events[n],
                                       TakeEnd(matching_ends(start_events[n]))))
                 ELSE F[n - 1]
    IN  F[Len(start_events)]

\* One pass of the loop of _add_session_info_to_dataframe: the session with
\* index label idx marks the rows at its start time and at its end time.
MarkSession(rows, session, idx) ==
    [i \in 1..Len(rows) |->
        IF /\ rows[i].app_name = session.app_name
           /\ \/ rows[i].timestamp = session.start_time
              \/ rows[i].timestamp = session.end_time
        THEN [rows[i] EXCEPT !.app_session_duration = session.duration_seconds,
                             !.session_id = idx]
        ELSE rows[i]]

\* AppSessionAnalyzer._add_session_info_to_dataframe
_add_session_info_to_dataframe(rows, sessions) ==
    LET blank == [i \in 1..Len(rows) |->
                     [app_session_duration |-> NaN, session_id |-> NaN] @@ rows[i]]
        F[n \in 0..Len(sessions)] ==
            IF n = 0 THEN blank ELSE MarkSession(F[n - 1], sessions[n], n - 1)
    IN  F[Len(sessions)]

\* AppSessionAnalyzer.analyze_app_usage_duration: the sessions stored in
\* self.app_sessions and the rows of the returned frame.
analyze_app_usage_duration(rows) ==
    LET sessions == PairSessions(rows)
    IN  [app_sessions |-> sessions,
         rows         |-> IF Len(sessions) # 0
                          THEN _add_session_info_to_dataframe(rows, sessions)
                          ELSE rows]

-----------------------------------------------------------------------------
(* utils/coordinates.py : CoordinateUtils *)

\* EARTH_RADIUS_METERS * radians(0.001), in millimetres: the length of one
\* millidegree of a meridian (111.195 m).
MillimetresPerMillidegree == 111195

\* CoordinateUtils.calculate_distance, in millimetres, for two points of one
\* meridian: with dlon = 0 the haversine formula gives R * |dlat|.
calculate_distance(lat1, lon1, lat2, lon2) ==
    CASE lon1 = lon2 -> Abs(lat2 - lat1) * MillimetresPerMillidegree

-----------------------------------------------------------------------------
(* analysis/movement.py : MovementAnalyzer *)

min_time_diff_seconds == 10

max_reasonable_speed == 120000

\* `distance / time_diff` (mm/s), then `speed_ms * 2.237` (milli-mph).
SpeedMph(prev_row, curr_row, time_diff) ==
    LET distance == calculate_distance(prev_row.latitude, prev_row.longitude,
                                       curr_row.latitude, curr_row.longitude)
        speed_ms == distance \div time_diff
    IN  (speed_ms * 2237) \div 1000

\* A mutant of FilterImpossibleSpeed: the computed speed is always kept.
KeepComputedSpeed(speed_mph, previous_speed) == speed_mph

\* "Filter out impossible speeds": a computed speed above max_reasonable_speed
\* is replaced by the last emitted speed.
FilterImpossibleSpeed(speed_mph, previous_speed) ==
    IF speed_mph > max_reasonable_speed THEN previous_speed ELSE speed_mph

\* A variant of _calculate_speeds: a point too close in time to the previous
\* one gets speed 0 instead of the last emitted speed.
CalculateSpeedsZeroOnShortGap(rows) ==
    LET F[n \in 0..Len(rows)] ==
            IF n = 0 THEN <<>>
            ELSE IF n = 1 THEN <<0>>
            ELSE LET prev_row  == rows[n - 1]
                     curr_row  == rows[n]
                     time_diff == curr_row.timestamp - prev_row.timestamp
                     last      == F[n - 1][n - 1]
                 IN  IF time_diff < min_time_diff_seconds
                     THEN Append(F[n - 1], 0)
                     ELSE Append(F[n - 1],
                                 FilterImpossibleSpeed(
                                     SpeedMph(prev_row, curr_row, time_diff),
                                     last))
    IN  F[Len(rows)]

\* MovementAnalyzer._calculate_speeds
_calculate_speeds(rows) ==
    LET F[n \in 0..Len(rows)] ==
            IF n = 0 THEN <<>>
            ELSE IF n = 1 THEN <<0>>
            ELSE LET prev_row  == rows[n - 1]
                     curr_row  == rows[n]
                     time_diff == curr_row.timestamp - prev_row.timestamp
                     last      == F[n - 1][n - 1]
                 IN  IF time_diff < min_time_diff_seconds
                     THEN Append(F[n - 1], last)
                     ELSE Append(F[n - 1],
                                 FilterImpossibleSpeed(
                                     SpeedMph(prev_row, curr_row, time_diff),
                                     last))
    IN  F[Len(rows)]

max_gps_accuracy == 100

stationary_speed_threshold == 3000

slow_driving_threshold == 35000

driving_threshold == 5000

\* `tolerance=pd.Timedelta(minutes=2)` of the merge_asof call, in seconds.
speed_match_tolerance_seconds == 120

\* DataFrame.sort_values('timestamp') of a short frame: a stable insertion
\* sort on the timestamp.
SortValues(rows) ==
    LET Insert(sorted, row) ==
            LET before == {i \in 1..Len(sorted) :
                              sorted[i].timestamp <= row.timestamp}
            IN  SubSeq(sorted, 1, Cardinality(before)) \o <<row>>
                    \o SubSeq(sorted, Cardinality(before) + 1, Len(sorted))
        F[n \in 0..Len(rows)] ==
            IF n = 0 THEN <<>> ELSE Insert(F[n - 1], rows[n])
    IN  F[Len(rows)]

\* A variant of _get_location_events that takes every row with coordinates,
\* whatever its location_source.
GetLocationEventsOfAnySource(rows) ==
    LET located == RowsAt(rows, {i \in 1..Len(rows) :
                        /\ ~IsNa(rows[i].latitude)
                        /\ ~IsNa(rows[i].longitude)})
        unique  == SortValues(DropDuplicates(located,
                        [i \in 1..Len(located) |->
                            <<located[i].timestamp, located[i].latitude,
                              located[i].longitude>>]))
        good_accuracy == RowsAt(unique, {i \in 1..Len(unique) :
                            \/ IsNa(unique[i].accuracy)
                            \/ unique[i].accuracy <= max_gps_accuracy})
    IN  IF Len(located) = 0 THEN located
        ELSE IF "accuracy" \in DOMAIN unique[1] /\ Len(good_accuracy) >= 2
             THEN good_accuracy
             ELSE unique

\* A variant of _get_location_events that applies the accuracy filter
\* whatever the number of points it leaves.
GetLocationEventsAlwaysFiltered(rows) ==
    LET located == RowsAt(rows, {i \in 1..Len(rows) :
                        /\ ~IsNa(rows[i].latitude)
                        /\ ~IsNa(rows[i].longitude)
                        /\ rows[i].location_source
                               \in {"location_tracking", "timeline_data"}})
        unique  == SortValues(DropDuplicates(located,
                        [i \in 1..Len(located) |->
                            <<located[i].timestamp, located[i].latitude,
                              located[i].longitude>>]))
        good_accuracy == RowsAt(unique, {i \in 1..Len(unique) :
                            \/ IsNa(unique[i].accuracy)
                            \/ unique[i].accuracy <= max_gps_accuracy})
    IN  IF Len(located) = 0 THEN located
        ELSE IF "accuracy" \in DOMAIN unique[1] THEN good_accuracy
        ELSE unique

\* MovementAnalyzer._get_location_events
_get_location_events(rows) ==
    LET located == RowsAt(rows, {i \in 1..Len(rows) :
                        /\ ~IsNa(rows[i].latitude)
                        /\ ~IsNa(rows[i].longitude)
                        /\ rows[i].location_source
                               \in {"location_tracking", "timeline_data"}})
        unique  == SortValues(DropDuplicates(located,
                        [i \in 1..Len(located) |->
                            <<located[i].timestamp, located[i].latitude,
                              located[i].longitude>>]))
        good_accuracy == RowsAt(unique, {i \in 1..Len(unique) :
                            \/ IsNa(unique[i].accuracy)
                            \/ unique[i].accuracy <= max_gps_accuracy})
    IN  IF Len(located) = 0 THEN located
        ELSE IF "accuracy" \in DOMAIN unique[1] /\ Len(good_accuracy) >= 2
             THEN good_accuracy
             ELSE unique

\* A variant of _classify_movement_type with the two thresholds exchanged.
ClassifyThresholdsExchanged(speed_mph) ==
    IF speed_mph < slow_driving_threshold THEN "stationary"
    ELSE IF speed_mph < stationary_speed_threshold THEN "driving_slow"
    ELSE "driving_fast"

\* MovementAnalyzer._classify_movement_type
_classify_movement_type(speed_mph) ==
    IF speed_mph < stationary_speed_threshold THEN "stationary"
    ELSE IF speed_mph < slow_driving_threshold THEN "driving_slow"
    ELSE "driving_fast"

\* df['speed_mph'] = ...; df['movement_type'] = ... : two new columns.
WithSpeed(row, speed_mph, movement_type) ==
    [speed_mph |-> speed_mph, movement_type |-> movement_type] @@ row

\* MovementAnalyzer._calculate_speeds_and_movement
_calculate_speeds_and_movement(location_events) ==
    IF Len(location_events) < 2
    THEN [i \in 1..Len(location_events) |->
             WithSpeed(location_events[i], 0, "stationary")]
    ELSE LET computed == _calculate_speeds(location_events)
         IN  [i \in 1..Len(location_events) |->
                 WithSpeed(location_events[i], computed[i],
                           _classify_movement_type(computed[i]))]

\* The right row pd.merge_asof(direction='nearest', tolerance=...) joins to a
\* left key t (0: none): the last right row at or before t and the first
\* right row at or after t, each dropped when farther than the tolerance;
\* of the two the backward one unless the forward one is strictly nearer.
AsofNearest(right, t, tolerance) ==
    LET atOrBefore == {j \in 1..Len(right) : right[j].timestamp <= t}
        atOrAfter  == {j \in 1..Len(right) : right[j].timestamp >= t}
        b  == IF atOrBefore = {} THEN 0
              ELSE CHOOSE j \in atOrBefore : \A k \in atOrBefore : k <= j
        f  == IF atOrAfter = {} THEN 0
              ELSE CHOOSE j \in atOrAfter : \A k \in atOrAfter : j <= k
        bri == IF b # 0 /\ t - right[b].timestamp <= tolerance THEN b ELSE 0
        fri == IF f # 0 /\ right[f].timestamp - t <= tolerance THEN f ELSE 0
    IN  IF bri # 0 /\ fri # 0
        THEN IF t - right[bri].timestamp <= right[fri].timestamp - t
             THEN bri ELSE fri
        ELSE IF bri # 0 THEN bri ELSE fri

\* A variant of _merge_speed_data without the two fillna calls: a row the
\* join finds no point for keeps a null speed and a null movement type.
MergeSpeedDataWithoutFill(rows, location_events) ==
    LET left  == SortValues(rows)
        right == SortValues(location_events)
    IN  [i \in 1..Len(left) |->
            LET j == AsofNearest(right, left[i].timestamp,
                                 speed_match_tolerance_seconds)
                joined == IF j = 0
                          THEN WithSpeed(left[i], NaN, "nan")
                          ELSE WithSpeed(left[i], right[j].speed_mph,
                                         right[j].movement_type)
            IN  [joined EXCEPT !.index = i - 1]]

\* MovementAnalyzer._merge_speed_data: the join, then fillna(0) and
\* fillna('stationary'); the joined frame has a fresh RangeIndex.
_merge_speed_data(rows, location_events) ==
    LET left  == SortValues(rows)
        right == SortValues(location_events)
    IN  [i \in 1..Len(left) |->
            LET j == AsofNearest(right, left[i].timestamp,
                                 speed_match_tolerance_seconds)
                joined == IF j = 0
                          THEN WithSpeed(left[i], 0, "stationary")
                          ELSE WithSpeed(left[i], right[j].speed_mph,
                                         right[j].movement_type)
            IN  [joined EXCEPT !.index = i - 1]]

\* MovementAnalyzer.analyze_movement_patterns.  Every merged frame has the
\* location_source column, so the branch for its absence is never taken;
\* _analyze_movement_statistics only prints.
analyze_movement_patterns(rows) ==
    IF Len(rows) = 0 THEN rows
    ELSE LET location_events == _get_location_events(rows)
         IN  IF Len(location_events) = 0
             THEN [i \in 1..Len(rows) |-> WithSpeed(rows[i], 0, "stationary")]
             ELSE _merge_speed_data(rows,
                      _calculate_speeds_and_movement(location_events))

-----------------------------------------------------------------------------
(* analysis/phone_usage.py : PhoneUsageAnalyzer, and the analyses that       *)
(* correlate phone use with speed                                            *)

\* PRIORITY.HIGH_PRIORITY
HIGH_PRIORITY == {"call_active", "sms_active", "social_media_active"}

default_critical_window == 10

default_analysis_window_after == 2

\* A collision time: None, or an instant t (seconds) that is tz-aware or
\* tz-naive.
NoCollisionTime == [is_none |-> TRUE, t |-> 0, tz_aware |-> FALSE]

\* The timestamps of every loaded frame are tz-aware (the time parser emits
\* "...Z"): comparing them with, or subtracting them from, a tz-naive
\* Timestamp raises TypeError.
ComparisonRaises(collision) == ~collision.is_none /\ ~collision.tz_aware

\* A mutant of filter_critical_timeframe: every row is kept.
KeepEveryRow(rows, collision, minutes_before, minutes_after) == rows

\* PhoneUsageAnalyzer.filter_critical_timeframe: the rows it returns.
filter_critical_timeframe(rows, collision, minutes_before, minutes_after) ==
    IF collision.is_none THEN rows
    ELSE RowsAt(rows, {i \in 1..Len(rows) :
                          /\ rows[i].timestamp >= collision.t - minutes_before * 60
                          /\ rows[i].timestamp <= collision.t + minutes_after * 60})

\* PhoneUsageAnalyzer.analyze_phone_usage_patterns: the forensic_priority
\* column and, with a collision time, the time_to_collision column.
analyze_phone_usage_patterns(rows, collision) ==
    [i \in 1..Len(rows) |->
        LET tagged == [forensic_priority |->
                          classify_forensic_event(rows[i].event_type,
                                                  rows[i].details,
                                                  rows[i].direction,
                                                  rows[i].app_name)] @@ rows[i]
        IN  IF collision.is_none THEN tagged
            ELSE [time_to_collision |-> collision.t - rows[i].timestamp]
                     @@ tagged]

\* PhoneUsageAnalyzer.analyze_phone_use_while_driving.  A frame has the
\* speed_mph column exactly when the movement analysis saw a row.
analyze_phone_use_while_driving(rows) ==
    LET driving_events == RowsAt(rows, {i \in 1..Len(rows) :
                              /\ rows[i].speed_mph > driving_threshold
                              /\ rows[i].forensic_priority \in HIGH_PRIORITY})
    IN  [i \in 1..Len(driving_events) |->
            [timestamp         |-> driving_events[i].timestamp,
             app_name          |-> driving_events[i].app_name,
             event_type        |-> driving_events[i].event_type,
             speed_mph         |-> driving_events[i].speed_mph,
             details           |-> driving_events[i].details,
             forensic_priority |-> driving_events[i].forensic_priority]]

\* The sum of the speed_mph column.
SumSpeed(events) ==
    LET F[n \in 0..Len(events)] ==
            IF n = 0 THEN 0 ELSE F[n - 1] + events[n].speed_mph
    IN  F[Len(events)]

\* A mutant of MeanSpeed: the speed of the last event.
LastSpeed(events) == events[Len(events)].speed_mph

\* `session_events['speed_mph'].mean()`, to the milli-mph below.
MeanSpeed(events) == SumSpeed(events) \div Len(events)

\* AppSessionAnalyzer.analyze_sessions_while_driving
analyze_sessions_while_driving(sessions, rows) ==
    LET session_events(session) ==
            RowsAt(rows, {i \in 1..Len(rows) :
                             /\ rows[i].timestamp >= session.start_time
                             /\ rows[i].timestamp <= session.end_time
                             /\ rows[i].app_name = session.app_name})
        F[n \in 0..Len(sessions)] ==
            IF n = 0 THEN <<>>
            ELSE LET events == session_events(sessions[n])
                 \* `avg_speed > CONFIG.driving_threshold`, on the exact mean
                 IN  IF /\ Len(events) # 0
                        /\ SumSpeed(events) > driving_threshold * Len(events)
                     THEN Append(F[n - 1],
                                 [avg_speed_during_session |-> MeanSpeed(events)]
                                     @@ sessions[n])
                     ELSE F[n - 1]
    IN  IF Len(sessions) = 0 \/ Len(rows) = 0 THEN <<>> ELSE F[Len(sessions)]

\* The mask of get_critical_sessions.
InCriticalWindow(session, collision, minutes_before_collision) ==
    /\ session.start_time >= collision.t - 60 * minutes_before_collision
    /\ session.start_time <= collision.t

\* AppSessionAnalyzer.get_critical_sessions: the list it returns, or a
\* TypeError (raised) when the start_time column, which is tz-aware, is
\* compared with a tz-naive collision time.
get_critical_sessions(sessions, collision, minutes_before_collision) ==
    IF Len(sessions) = 0 \/ collision.is_none
    THEN [raised |-> FALSE, sessions |-> <<>>]
    ELSE IF ComparisonRaises(collision)
    THEN [raised |-> TRUE, sessions |-> <<>>]
    ELSE [raised |-> FALSE,
          sessions |->
              RowsAt(sessions,
                     {i \in 1..Len(sessions) :
                         InCriticalWindow(sessions[i], collision,
                                          minutes_before_collision)})]

-----------------------------------------------------------------------------
(* Inputs *)

MaxEvents == 2

MaxFixes == 2

\* The row a timeline loader stores for a raw row (_process_timeline_row);
\* the index label is given when the row is put in a frame.
TimelineEvent(ts, annotation, event_type, direction, description, lat, lon) ==
    [timestamp       |-> ts,
     time_annotation |-> annotation,
     event_type      |-> event_type,
     direction       |-> direction,
     details         |-> description,
     app_name        |-> ExtractAppName(description, event_type),
     latitude        |-> lat,
     longitude       |-> lon]

\* The row a location loader stores for a raw row (_process_location_row).
LocationFix(ts, lat, lon, acc) ==
    [timestamp |-> ts, latitude |-> lat, longitude |-> lon, accuracy |-> acc]

\* A frame's rows with RangeIndex labels 0, 1, ...
Indexed(s) == [i \in 1..Len(s) |-> [index |-> i - 1] @@ s[i]]

\* sort_values('timestamp'): the streams both loaders return are in
\* ascending time order.
IsTimeSorted(s) == \A i \in 1..(Len(s) - 1) : s[i].timestamp <= s[i + 1].timestamp

SortedStreams(S, max) ==
    UNION {{s \in [1..n -> S] : IsTimeSorted(s)} : n \in 1..max}

\* drop_duplicates(subset = ['timestamp', 'latitude', 'longitude'])
FixKey(fix) == <<fix.timestamp, fix.latitude, fix.longitude>>

NoDuplicateFix(s) == \A i, j \in 1..Len(s) : i # j => FixKey(s[i]) # FixKey(s[j])

MergeEvents ==
    {TimelineEvent(ts, "none", "Web History", "nan", d, c[1], c[2]) :
        ts \in {0, 300}, d \in {"Unlocked", "Snapchat story"},
        c \in {<<NaN, NaN>>, <<41000, NaN>>, <<41000, -75000>>}}

MergeFixes ==
    {LocationFix(ts, p[1], -74000, p[2]) :
        ts \in {240, 360, 600, 601}, p \in {<<40000, NaN>>, <<40010, 50>>}}

MergeTimelines == {Frame(Indexed(s)) : s \in SortedStreams(MergeEvents, MaxEvents)}

MergeLocationStreams ==
    {NoFrame, Frame(<<>>)} \cup
    {Frame(s) : s \in {t \in SortedStreams(MergeFixes, MaxFixes) : NoDuplicateFix(t)}}

ClassifyTypes ==
    {"Call", "Call Log", "Phone", "SMS Messages", "Instant Messages",
     "Social Media", "Device Notifications", "Log Entries",
     "Network Connections", "Applications Usage Log", "Web History"}

ClassifyDescriptions == {"", "Missed call notification", "Snapchat story", "Unlocked"}

ClassifyDirections == {"", "Incoming", "Outgoing", "incoming"}

ClassifyApps ==
    {"", "Instagram", "Browser", "System", "Phone", "Notifications", "Unknown"}

MaxSessionEvents == 3

\* Rows of a merged frame for the session pairing: start, end and plain
\* events of two apps; each event sits where the vehicle is at its time.
SessionEvents ==
    {MergedRow(TimelineEvent(ts, k[1], "Applications Usage Log", "nan", k[2],
                             NaN, NaN) @@ [index |-> 0],
               40000 + (ts \div 60), -74000, NaN, "location_tracking") :
        ts \in {0, 60, 3600, 3661},
        k \in {<<"start", "Opened Instagram">>, <<"end", "Opened Instagram">>,
               <<"start", "Snapchat story">>, <<"end", "Snapchat story">>,
               <<"none", "Opened Instagram">>, <<"none", "Instagram">>}}

\* The frame keeps the time order the loader and the merger give it.
SessionFrames ==
    {Frame([i \in 1..Len(s) |-> [s[i] EXCEPT !.index = i - 1]]) :
        s \in SortedStreams(SessionEvents, MaxSessionEvents)}

MaxPoints == 3

\* Location events for the speed computation: points of one meridian, 0, 1,
\* 5 or 32 millidegrees north of the first one.
SpeedPoints ==
    {MergedRow(TimelineEvent(ts, "none", "Web History", "nan", "Unlocked",
                             NaN, NaN) @@ [index |-> 0],
               lat, -74000, NaN, "location_tracking") :
        ts \in {0, 5, 10, 60, 70}, lat \in {40000, 40001, 40005, 40032}}

\* _get_location_events hands over points without duplicates, sorted by time.
SpeedFrames ==
    {Frame([i \in 1..Len(s) |-> [s[i] EXCEPT !.index = i - 1]]) :
        s \in {t \in SortedStreams(SpeedPoints, MaxPoints) : NoDuplicateFix(t)}}

MaxRunEvents == 3

\* Timeline events of a run, without coordinates of their own: the start
\* of an Instagram use (at 0 s or 30 s), its end (at 30 s or 120 s), and an
\* incoming call.
RunEvents ==
    {TimelineEvent(e[1], e[2], "Applications Usage Log", "nan",
                   "Opened Instagram", NaN, NaN) :
        e \in {<<0, "start">>, <<30, "start">>, <<30, "end">>, <<120, "end">>}}
    \cup
    {TimelineEvent(ts, "none", "Call Log", "Incoming", "nan", NaN, NaN) :
        ts \in {0, 30, 120}}

\* Timeline events of a run with coordinates of their own (the Latitude and
\* Longitude cells of the timeline sheet): the start of an Instagram use and
\* its end 120 s later, 10 millidegrees further north.
LocatedRunEvents ==
    {TimelineEvent(0, "start", "Applications Usage Log", "nan",
                   "Opened Instagram", 40000, -74000),
     TimelineEvent(120, "end", "Applications Usage Log", "nan",
                   "Opened Instagram", 40010, -74000)}

\* What load_timeline returns: None, or a frame of at least one event in
\* time order.
RunTimelines ==
    {NoFrame} \cup
    {Frame(Indexed(s)) : s \in SortedStreams(RunEvents, MaxRunEvents)} \cup
    {Frame(Indexed(s)) : s \in SortedStreams(LocatedRunEvents, MaxRunEvents)}

\* What load_locations returns (None also when no location file is given):
\* a drive of 10 millidegrees north in 120 s, the same drive with a fix of
\* poor accuracy in between, and a single late fix.
RunLocationStreams ==
    {NoFrame,
     Frame(<<LocationFix(0, 40000, -74000, NaN),
             LocationFix(120, 40010, -74000, NaN)>>),
     Frame(<<LocationFix(0, 40000, -74000, 10),
             LocationFix(30, 40002, -74000, 150),
             LocationFix(120, 40010, -74000, 10)>>),
     Frame(<<LocationFix(420, 40030, -74000, NaN)>>)}

\* The --collision-time argument as pd.to_datetime reads it: a string that
\* does not parse, "YYYY-MM-DD HH:MM:SS" (tz-naive) or the same instant with
\* a UTC designator (tz-aware); t is 150 s after the first event.
CollisionTimeArgs ==
    {[parses |-> FALSE, t |-> 0, tz_aware |-> FALSE],
     [parses |-> TRUE, t |-> 150, tz_aware |-> FALSE],
     [parses |-> TRUE, t |-> 150, tz_aware |-> TRUE]}

\* The --window argument.
Windows == {1, default_critical_window}

\* The --tolerance argument.
Tolerances == {1, location_match_tolerance_minutes}

\* argparse's defaults for --tolerance and --window.
DefaultArgs == [tolerance |-> location_match_tolerance_minutes,
                window    |-> default_critical_window]

\* parser.parse_args()
CliArgs == [tolerance : Tolerances, window : Windows]

\* An analysis stage that raises (unexpected shape, missing column).
Faults == {"none", "phone_usage", "movement"}

NoArgs == [event_type |-> "", description |-> "", direction |-> "", app_name |-> ""]

\* The session lists analyze_app_usage_duration stores.
QuerySessionLists == {PairSessions(frame.rows) : frame \in SessionFrames}

MaxDrivingEvents == 3

\* Enriched events: the rows of a frame analyze_movement_patterns returned.
DrivingEvents ==
    {WithSpeed(MergedRow(TimelineEvent(k[1], "none", "Applications Usage Log",
                                       "nan", k[2], NaN, NaN) @@ [index |-> 0],
                         40000, -74000, NaN, "location_tracking"),
               speed, _classify_movement_type(speed)) :
        k \in {<<0, "Opened Instagram">>, <<60, "Opened Instagram">>,
               <<61, "Opened Instagram">>, <<60, "Snapchat story">>},
        speed \in {0, driving_threshold, driving_threshold + 1,
                   2 * driving_threshold}}

DrivingFrames ==
    {Frame(<<>>)} \cup
    {Frame([i \in 1..Len(s) |-> [s[i] EXCEPT !.index = i - 1]]) :
        s \in SortedStreams(DrivingEvents, MaxDrivingEvents)}

\* The sessions the driving analysis is asked about: an Instagram session
\* and a Snapchat session from 0:00 to 1:00.
DrivingSessionLists ==
    {sessions \in QuerySessionLists :
        \A i \in 1..Len(sessions) :
            sessions[i].start_time = 0 /\ sessions[i].end_time = 60}

\* Collision times for get_critical_sessions: none, or an instant, tz-aware
\* ("...Z") or tz-naive ("2024-01-15 14:30:45").
QueryCollisionTimes ==
    {NoCollisionTime} \cup
    {[is_none |-> FALSE, t |-> t, tz_aware |-> aware] :
        t \in {59, 60, 120, 660, 661}, aware \in BOOLEAN}

MaxMovementRows == 3

\* Rows of a merged frame for the movement analysis, as the merger makes
\* them with a location stream: events located by a fix (accuracy unknown,
\* 10 m or 150 m), events with coordinates of their own, and events without
\* location.
MovementRows ==
    {MergedRow(TimelineEvent(ts, "none", "Web History", "nan", "Unlocked",
                             NaN, NaN) @@ [index |-> 0],
               lat, -74000, acc, "location_tracking") :
        ts \in {0, 60}, lat \in {40000, 40005, 40010}, acc \in {NaN, 150}}
    \cup
    {MergedRow(TimelineEvent(ts, "none", "Web History", "nan", "Unlocked",
                             NaN, NaN) @@ [index |-> 0],
               40000, -74000, max_gps_accuracy, "location_tracking") :
        ts \in {0, 60}}
    \cup
    {MergedRow(TimelineEvent(60, "none", "Web History", "nan", "Unlocked",
                             40020, -74000) @@ [index |-> 0],
               40020, -74000, NaN, "timeline_data")}
    \cup
    {MergedRow(TimelineEvent(ts, "none", "Web History", "nan", "Unlocked",
                             NaN, NaN) @@ [index |-> 0],
               NaN, NaN, NaN, "no_location") :
        ts \in {30, 60 + speed_match_tolerance_seconds,
                61 + speed_match_tolerance_seconds}}

\* Rows of a merged frame made without a location stream: no accuracy
\* column, every row tagged 'timeline_only', with or without coordinates.
TimelineOnlyRows ==
    {TimelineOnlyRow(TimelineEvent(e[1], "none", "Web History", "nan",
                                   "Unlocked", e[2], e[3]) @@ [index |-> 0]) :
        e \in {<<0, 40000, -74000>>, <<60, 40010, -74000>>, <<60, NaN, NaN>>}}

\* The frames analyze_movement_patterns is given: in time order, as the
\* loader and the merger leave them, or empty.
\* The location stream has one fix for a (timestamp, latitude, longitude):
\* two events located at the same fix have the same accuracy.
FromOneLocationStream(s) ==
    \A i, j \in 1..Len(s) : FixKey(s[i]) = FixKey(s[j]) => s[i].accuracy = s[j].accuracy

MovementFrames ==
    {Frame(<<>>)} \cup
    {Frame([i \in 1..Len(s) |-> [s[i] EXCEPT !.index = i - 1]]) :
        s \in {t \in SortedStreams(MovementRows, MaxMovementRows) :
                   FromOneLocationStream(t)}
                \cup SortedStreams(TimelineOnlyRows, MaxMovementRows)}

-----------------------------------------------------------------------------
(* data/parsers.py : CellebriteTimeParser; data/validators.py;               *)
(* data/loaders.py : the two loaders.                                        *)
(*                                                                           *)
(* A Time cell of a sheet is a record of what its text holds: the format    *)
(* the text is written in (shape), the day (days after the first day of the *)
(* export), the clock fields as written, the AM/PM mark, the bracketed      *)
(* annotation and the "(UTC-5)" offset.  An instant is the number of        *)
(* seconds after 00:00:00 of the first day.  A numeric cell is a record     *)
(* [numeric, value]: text that is no number has numeric = FALSE.            *)

\* CellebriteTimeParser.TIME_FORMATS
TIME_FORMATS ==
    <<"%m/%d/%Y %I:%M:%S %p", "%m/%d/%Y %H:%M:%S", "%m/%d/%Y">>

SecondsPerDay == 86400

SecondsPerHour == 3600

SecondsPerMinute == 60

\* datetime.strptime(clean_time, fmt): the instant, or NaN for ValueError.
\* %I takes hours 1..12 (12 AM is hour 0, 12 PM is hour 12), %H hours 0..23.
Strptime(cell, fmt) ==
    LET clock_ok == cell.minute \in 0..59 /\ cell.second \in 0..59
        at(hour24) == cell.day * SecondsPerDay + hour24 * SecondsPerHour
                          + cell.minute * SecondsPerMinute + cell.second
    IN  IF cell.shape # fmt THEN NaN
        ELSE IF fmt = TIME_FORMATS[1]
        THEN IF cell.hour \in 1..12 /\ clock_ok
             THEN at((cell.hour % 12) + (IF cell.pm THEN 12 ELSE 0))
             ELSE NaN
        ELSE IF fmt = TIME_FORMATS[2]
        THEN IF cell.hour \in 0..23 /\ clock_ok THEN at(cell.hour) ELSE NaN
        ELSE cell.day * SecondsPerDay

\* CellebriteTimeParser.parse_cellebrite_time: the annotation is read, the
\* "(UTC-5)" part and the bracketed part are removed, and the first format
\* that parses the rest gives the instant; (None, None) when none does.
parse_cellebrite_time(cell) ==
    LET parsing == {f \in 1..Len(TIME_FORMATS) :
                       ~IsNa(Strptime(cell, TIME_FORMATS[f]))}
    IN  IF parsing = {}
        THEN [timestamp |-> NaN, annotation |-> "none"]
        ELSE [timestamp |->
                  Strptime(cell, TIME_FORMATS[CHOOSE f \in parsing :
                                                 \A g \in parsing : f <= g]),
              annotation |-> cell.annotation]

\* pd.to_numeric(cell, errors = 'coerce')
ToNumeric(cell) == IF cell.numeric THEN cell.value ELSE NaN

\* Python's None, returned for a raw row that is not stored.
NoRow == [is_row |-> FALSE]

\* A variant of _process_timeline_row that stores a row whose Time did not
\* parse, with a null timestamp.
StoreUnparsedRow(row) ==
    LET timestamp_result == parse_cellebrite_time(row.Time)
    IN  [is_row |-> TRUE] @@
        TimelineEvent(timestamp_result.timestamp, timestamp_result.annotation,
                      row.Type, row.Direction, row.Description,
                      ToNumeric(row.Latitude), ToNumeric(row.Longitude))

\* CellebriteTimelineLoader._process_timeline_row
_process_timeline_row(row) ==
    LET timestamp_result == parse_cellebrite_time(row.Time)
    IN  IF IsNa(timestamp_result.timestamp)
        THEN NoRow
        ELSE [is_row |-> TRUE] @@
             TimelineEvent(timestamp_result.timestamp, timestamp_result.annotation,
                           row.Type, row.Direction, row.Description,
                           ToNumeric(row.Latitude), ToNumeric(row.Longitude))

\* The field is_row removed from a stored row.
Stored(row) == [f \in (DOMAIN row) \ {"is_row"} |-> row[f]]

\* CellebriteTimelineLoader.load_timeline, from the sheet read_excel returned:
\* the frame it returns and the number of rows it reports as skipped.
load_timeline(sheet) ==
    LET event_data == [i \in 1..Len(sheet) |-> _process_timeline_row(sheet[i])]
        valid == {i \in 1..Len(sheet) : event_data[i].is_row}
        standardized_data ==
            Indexed([i \in 1..Cardinality(valid) |->
                        Stored(RowsAt(event_data, valid)[i])])
        notna == {i \in 1..Len(standardized_data) :
                     ~IsNa(standardized_data[i].timestamp)}
    IN  [timeline_df |->
             IF valid = {} THEN NoFrame
             ELSE Frame(SortValues(RowsAt(standardized_data, notna))),
         skipped_events |-> Len(sheet) - Cardinality(valid)]

\* settings.py: the coordinate bounds, in millidegrees
min_latitude == 25000

max_latitude == 49000

min_longitude == -125000

max_longitude == -66000

\* A variant of validate_coordinates that checks the latitude only.
validate_latitude_only(lat, lon) ==
    min_latitude <= lat /\ lat <= max_latitude

\* DataValidator.validate_coordinates
validate_coordinates(lat, lon) ==
    /\ min_latitude <= lat /\ lat <= max_latitude
    /\ min_longitude <= lon /\ lon <= max_longitude

\* CellebriteLocationLoader._process_location_row
_process_location_row(row) ==
    LET timestamp_result == parse_cellebrite_time(row.Time)
        lat == ToNumeric(row.Latitude)
        lon == ToNumeric(row.Longitude)
    IN  IF IsNa(timestamp_result.timestamp) THEN NoRow
        ELSE IF IsNa(lat) \/ IsNa(lon) THEN NoRow
        ELSE IF ~validate_coordinates(lat, lon) THEN NoRow
        ELSE [is_row |-> TRUE] @@
             LocationFix(timestamp_result.timestamp, lat, lon,
                         ToNumeric(row.Accuracy))

\* CellebriteLocationLoader.load_locations, from the sheet read_excel
\* returned: the frame it returns and the counts it reports.
load_locations(sheet) ==
    LET location_point == [i \in 1..Len(sheet) |-> _process_location_row(sheet[i])]
        valid == {i \in 1..Len(sheet) : location_point[i].is_row}
        location_rows == [i \in 1..Cardinality(valid) |->
                             Stored(RowsAt(location_point, valid)[i])]
        deduplicated ==
            DropDuplicates(location_rows,
                           [i \in 1..Len(location_rows) |-> FixKey(location_rows[i])])
    IN  [location_df |->
             IF valid = {} THEN NoFrame ELSE Frame(SortValues(deduplicated)),
         skipped_bad_coords |-> Len(sheet) - Cardinality(valid),
         duplicates_removed |-> Len(location_rows) - Len(deduplicated)]

MaxSheetRows == 3

TimeCell(shape, day, hour, minute, second, pm, annotation, utc_offset) ==
    [shape |-> shape, day |-> day, hour |-> hour, minute |-> minute,
     second |-> second, pm |-> pm, annotation |-> annotation,
     utc_offset |-> utc_offset]

\* What str() gives for a cell Excel holds as a date ("2024-01-15 13:00:00")
\* and for a blank cell ("nan"): text in none of the formats.
IsoCell == TimeCell("%Y-%m-%d %H:%M:%S", 0, 13, 0, 0, FALSE, "none", 0)

BlankCell == TimeCell("nan", 0, 0, 0, 0, FALSE, "none", 0)

\* "01/15/2024 1:00:00 PM(UTC-5) [End time]" and "01/15/2024 13:00:00": two
\* texts of one instant.
OnePmCell == TimeCell(TIME_FORMATS[1], 0, 1, 0, 0, TRUE, "end", -5)

ThirteenCell == TimeCell(TIME_FORMATS[2], 0, 13, 0, 0, FALSE, "none", 0)

TimeCells ==
    {TimeCell(TIME_FORMATS[1], 0, 10, 0, 0, FALSE, "none", -5),
     TimeCell(TIME_FORMATS[1], 0, 12, 30, 0, FALSE, "start", -5),
     OnePmCell,
     TimeCell(TIME_FORMATS[1], 0, 13, 0, 0, TRUE, "none", -5),
     ThirteenCell,
     TimeCell(TIME_FORMATS[3], 1, 0, 0, 0, FALSE, "none", 0),
     IsoCell,
     BlankCell}

Number(v) == [numeric |-> TRUE, value |-> v]

TextCell == [numeric |-> FALSE, value |-> 0]

TimelineRawRows ==
    {[Time |-> time, Type |-> "Call Log", Direction |-> "Incoming",
      Description |-> "nan", Latitude |-> Number(NaN), Longitude |-> Number(NaN)] :
        time \in TimeCells}

LocationRawRows ==
    {[Time |-> time, Latitude |-> c[1], Longitude |-> c[2], Accuracy |-> c[3]] :
        time \in {OnePmCell, ThirteenCell, IsoCell},
        c \in {<<Number(40000), Number(-74000), Number(NaN)>>,
               <<Number(min_latitude), Number(max_longitude), Number(NaN)>>,
               <<Number(min_latitude - 1), Number(-74000), Number(NaN)>>,
               <<Number(40000), Number(max_longitude + 1), Number(NaN)>>,
               <<TextCell, Number(-74000), Number(NaN)>>}}
    \cup
    {[Time |-> time, Latitude |-> Number(40000), Longitude |-> Number(-74000),
      Accuracy |-> Number(10)] : time \in {OnePmCell, ThirteenCell}}

Sheets(R) == UNION {[1..n -> R] : n \in 0..MaxSheetRows}

-----------------------------------------------------------------------------
(* The merger, called on its own *)

MovementIdle == movement_points = <<>>

LoadIdle ==
    /\ timeline_sheet = <<>>
    /\ location_sheet = <<>>
    /\ skipped_events = 0
    /\ skipped_bad_coords = 0

MergeIdle ==
    /\ timeline_data = NoFrame
    /\ location_data = NoFrame
    /\ merged_data = NoFrame
    /\ search_log = {}

ClassifyIdle ==
    /\ classify_args = NoArgs
    /\ forensic_priority = "none"

CallIdle ==
    /\ df = NoFrame
    /\ result_df = NoFrame
    /\ app_sessions = <<>>
    /\ speeds = <<>>

\* ForensicAnalysisOrchestrator.__init__, before main has done anything.
OrchestratorIdle ==
    /\ collision_time = NoCollisionTime
    /\ phone_collision_time = NoCollisionTime
    /\ session_collision_time = NoCollisionTime
    /\ phone_while_driving = <<>>
    /\ app_sessions_while_driving = <<>>
    /\ exit_code = -1
    /\ uncaught = FALSE
    /\ stage_log = <<>>
    /\ critical_sessions = <<>>

\* No run: the command line has its defaults.
RunIdle ==
    /\ OrchestratorIdle
    /\ args = DefaultArgs

InitMerge ==
    /\ pc = "merge"
    /\ timeline_data \in MergeTimelines
    /\ location_data \in MergeLocationStreams
    /\ merged_data = NoFrame
    /\ search_log = {}
    /\ ClassifyIdle
    /\ CallIdle
    /\ RunIdle
    /\ LoadIdle
    /\ MovementIdle

\* DataMerger.merge_timeline_and_locations(timeline_df, location_df)
Merge ==
    /\ pc = "merge"
    /\ LET merged == MergeTimelineAndLocations(timeline_data, location_data,
                                               location_match_tolerance_minutes)
       IN  /\ merged_data' = Frame(merged.rows)
           /\ search_log' = merged.searched
    /\ pc' = "merged"
    /\ UNCHANGED <<loadVars, movementVars, timeline_data, location_data, classifyVars, callVars, runVars>>

NextMerge == Merge

SpecMerge == InitMerge /\ [][NextMerge]_vars

-----------------------------------------------------------------------------
(* The classifier, called on its own *)

InitClassify ==
    /\ pc = "classify"
    /\ classify_args \in [event_type : ClassifyTypes,
                          description : ClassifyDescriptions,
                          direction : ClassifyDirections,
                          app_name : ClassifyApps]
    /\ forensic_priority = "none"
    /\ MergeIdle
    /\ CallIdle
    /\ RunIdle
    /\ LoadIdle
    /\ MovementIdle

\* ForensicEventClassifier.classify_forensic_event(...)
Classify ==
    /\ pc = "classify"
    /\ forensic_priority' = classify_forensic_event(classify_args.event_type,
                                                    classify_args.description,
                                                    classify_args.direction,
                                                    classify_args.app_name)
    /\ pc' = "classified"
    /\ UNCHANGED <<loadVars, movementVars, mergeVars, classify_args, callVars, runVars>>

NextClassify == Classify

SpecClassify == InitClassify /\ [][NextClassify]_vars

-----------------------------------------------------------------------------
(* The session analyzer, called on its own *)

InitSessions ==
    /\ pc = "sessions"
    /\ df \in SessionFrames
    /\ result_df = NoFrame
    /\ app_sessions = <<>>
    /\ speeds = <<>>
    /\ MergeIdle
    /\ ClassifyIdle
    /\ RunIdle
    /\ LoadIdle
    /\ MovementIdle

\* AppSessionAnalyzer.analyze_app_usage_duration(df)
AnalyzeAppUsageDuration ==
    /\ pc = "sessions"
    /\ LET r == analyze_app_usage_duration(df.rows)
       IN  /\ app_sessions' = r.app_sessions
           /\ result_df' = Frame(r.rows)
    /\ pc' = "sessions_done"
    /\ UNCHANGED <<loadVars, movementVars, mergeVars, classifyVars, df, speeds, runVars>>

NextSessions == AnalyzeAppUsageDuration

SpecSessions == InitSessions /\ [][NextSessions]_vars

-----------------------------------------------------------------------------
(* The speed computation, called on its own *)

InitSpeeds ==
    /\ pc = "speeds"
    /\ df \in SpeedFrames
    /\ result_df = NoFrame
    /\ app_sessions = <<>>
    /\ speeds = <<>>
    /\ MergeIdle
    /\ ClassifyIdle
    /\ RunIdle
    /\ LoadIdle
    /\ MovementIdle

\* MovementAnalyzer._calculate_speeds(df)
CalculateSpeeds ==
    /\ pc = "speeds"
    /\ speeds' = _calculate_speeds(df.rows)
    /\ pc' = "speeds_done"
    /\ UNCHANGED <<loadVars, movementVars, mergeVars, classifyVars, df, result_df, app_sessions, runVars>>

NextSpeeds == CalculateSpeeds

SpecSpeeds == InitSpeeds /\ [][NextSpeeds]_vars

-----------------------------------------------------------------------------
(* The loaders, called on their own *)

InitLoad ==
    /\ \/ /\ pc = "load_timeline"
          /\ timeline_sheet \in Sheets(TimelineRawRows)
          /\ location_sheet = <<>>
       \/ /\ pc = "load_locations"
          /\ timeline_sheet = <<>>
          /\ location_sheet \in Sheets(LocationRawRows)
    /\ skipped_events = 0
    /\ skipped_bad_coords = 0
    /\ MergeIdle
    /\ ClassifyIdle
    /\ CallIdle
    /\ RunIdle
    /\ MovementIdle

\* CellebriteTimelineLoader.load_timeline(filepath), the file read
LoadTimeline ==
    /\ pc = "load_timeline"
    /\ LET loaded == load_timeline(timeline_sheet)
       IN  /\ timeline_data' = loaded.timeline_df
           /\ skipped_events' = loaded.skipped_events
    /\ pc' = "timeline_loaded"
    /\ UNCHANGED <<movementVars, timeline_sheet, location_sheet, skipped_bad_coords,
                   location_data, merged_data, search_log, classifyVars,
                   callVars, runVars>>

\* CellebriteLocationLoader.load_locations(filepath), the file read
LoadLocations ==
    /\ pc = "load_locations"
    /\ LET loaded == load_locations(location_sheet)
       IN  /\ location_data' = loaded.location_df
           /\ skipped_bad_coords' = loaded.skipped_bad_coords
    /\ pc' = "locations_loaded"
    /\ UNCHANGED <<movementVars, timeline_sheet, location_sheet, skipped_events,
                   timeline_data, merged_data, search_log, classifyVars,
                   callVars, runVars>>

NextLoad == LoadTimeline \/ LoadLocations

SpecLoad == InitLoad /\ [][NextLoad]_vars

-----------------------------------------------------------------------------
(* The session analyzer's queries, called on their own *)

InitQueries ==
    /\ \/ /\ pc = "sessions_while_driving"
          /\ app_sessions \in DrivingSessionLists
          /\ df \in DrivingFrames
          /\ session_collision_time = NoCollisionTime
          /\ args = DefaultArgs
       \/ /\ pc = "critical_sessions"
          /\ app_sessions \in QuerySessionLists
          /\ df = NoFrame
          /\ session_collision_time \in QueryCollisionTimes
          /\ args \in {[DefaultArgs EXCEPT !.window = w] : w \in Windows}
    /\ result_df = NoFrame
    /\ speeds = <<>>
    /\ collision_time = NoCollisionTime
    /\ phone_collision_time = NoCollisionTime
    /\ phone_while_driving = <<>>
    /\ app_sessions_while_driving = <<>>
    /\ critical_sessions = <<>>
    /\ exit_code = -1
    /\ uncaught = FALSE
    /\ stage_log = <<>>
    /\ MergeIdle
    /\ ClassifyIdle
    /\ LoadIdle
    /\ MovementIdle

\* AppSessionAnalyzer.analyze_sessions_while_driving(df)
AnalyzeSessionsWhileDriving ==
    /\ pc = "sessions_while_driving"
    /\ app_sessions_while_driving' = analyze_sessions_while_driving(app_sessions, df.rows)
    /\ pc' = "sessions_while_driving_done"
    /\ UNCHANGED <<loadVars, movementVars, mergeVars, classifyVars, callVars, collision_time,
                   phone_collision_time, phone_while_driving, exit_code,
                   uncaught, args, session_collision_time, stage_log,
                   critical_sessions>>

\* AppSessionAnalyzer.get_critical_sessions(minutes_before_collision)
GetCriticalSessions ==
    /\ pc = "critical_sessions"
    /\ LET returned == get_critical_sessions(app_sessions, session_collision_time,
                                             args.window)
       IN  IF returned.raised
           THEN /\ pc' = "critical_sessions_raised"
                /\ UNCHANGED critical_sessions
           ELSE /\ pc' = "critical_sessions_done"
                /\ critical_sessions' = returned.sessions
    /\ UNCHANGED <<loadVars, movementVars, mergeVars, classifyVars, callVars, collision_time,
                   phone_collision_time, phone_while_driving,
                   app_sessions_while_driving, exit_code, uncaught, args,
                   session_collision_time, stage_log>>

NextQueries == AnalyzeSessionsWhileDriving \/ GetCriticalSessions

SpecQueries == InitQueries /\ [][NextQueries]_vars

-----------------------------------------------------------------------------
(* The movement analysis, called on its own *)

InitMovement ==
    /\ pc = "movement"
    /\ df \in MovementFrames
    /\ result_df = NoFrame
    /\ app_sessions = <<>>
    /\ speeds = <<>>
    /\ movement_points = <<>>
    /\ MergeIdle
    /\ ClassifyIdle
    /\ RunIdle
    /\ LoadIdle

\* MovementAnalyzer.analyze_movement_patterns(df)
AnalyzeMovementPatterns ==
    /\ pc = "movement"
    /\ result_df' = Frame(analyze_movement_patterns(df.rows))
    /\ movement_points' = IF Len(df.rows) = 0 THEN <<>>
                           ELSE _get_location_events(df.rows)
    /\ pc' = "movement_done"
    /\ UNCHANGED <<loadVars, mergeVars, classifyVars, df, app_sessions, speeds,
                   runVars>>

NextMovement == AnalyzeMovementPatterns

SpecMovement == InitMovement /\ [][NextMovement]_vars

-----------------------------------------------------------------------------
(* main.py : one command-line run *)

\* main, up to the construction of the orchestrator.
Init ==
    /\ pc = "main"
    /\ MergeIdle
    /\ ClassifyIdle
    /\ CallIdle
    /\ OrchestratorIdle
    /\ args \in CliArgs
    /\ LoadIdle
    /\ MovementIdle

\* A mutant of SetCollisionDetails: the collision time is not handed to the
\* analyzers.
SetCollisionDetailsNotPropagated ==
    /\ pc = "main"
    /\ \E arg \in CollisionTimeArgs :
          IF arg.parses
          THEN /\ collision_time' = [is_none |-> FALSE, t |-> arg.t,
                                     tz_aware |-> arg.tz_aware]
               /\ pc' = "load"
               /\ UNCHANGED uncaught
          ELSE /\ uncaught' = TRUE
               /\ pc' = "crashed"
               /\ UNCHANGED collision_time
    /\ UNCHANGED <<loadVars, movementVars, critical_sessions, mergeVars, classifyVars,
                   callVars, phone_collision_time, session_collision_time,
                   phone_while_driving, app_sessions_while_driving,
                   exit_code, args, stage_log>>

\* main, from its start to the end of orchestrator.set_collision_details:
\* pd.to_datetime raises on a string it cannot parse, and nothing catches it.
\* The collision time is copied to the analyzers and the generators.
SetCollisionDetails ==
    /\ pc = "main"
    /\ \E arg \in CollisionTimeArgs :
          IF arg.parses
          THEN /\ collision_time' = [is_none |-> FALSE, t |-> arg.t,
                                     tz_aware |-> arg.tz_aware]
               /\ phone_collision_time' = collision_time'
               /\ session_collision_time' = collision_time'
               /\ pc' = "load"
               /\ UNCHANGED uncaught
          ELSE /\ uncaught' = TRUE
               /\ pc' = "crashed"
               /\ UNCHANGED <<collision_time, phone_collision_time,
                              session_collision_time>>
    /\ UNCHANGED <<loadVars, movementVars, critical_sessions, mergeVars, classifyVars,
                   callVars, phone_while_driving, app_sessions_while_driving,
                   exit_code, args, stage_log>>

\* main without --collision-time.
NoCollisionDetails ==
    /\ pc = "main"
    /\ pc' = "load"
    /\ UNCHANGED <<loadVars, movementVars, mergeVars, classifyVars, callVars, runVars>>

\* The entry main's call of a stage leaves in stage_log.
Stage(name, returned) == [stage |-> name, returned |-> returned]

\* orchestrator.load_data, and main's `return 1` when it returns False.  The
\* merger is called without a tolerance argument: it applies its default.
LoadData ==
    /\ pc = "load"
    /\ \E timeline \in RunTimelines, locations \in RunLocationStreams :
          /\ timeline_data' = timeline
          /\ location_data' = locations
          /\ IF timeline.is_none \/ IsEmpty(timeline)
             THEN /\ exit_code' = 1
                  /\ pc' = "exit"
                  /\ stage_log' = Append(stage_log, Stage("load_data", FALSE))
                  /\ UNCHANGED <<merged_data, search_log>>
             ELSE LET merged == MergeTimelineAndLocations(timeline, locations,
                                    location_match_tolerance_minutes)
                  IN  /\ merged_data' = Frame(merged.rows)
                      /\ search_log' = merged.searched
                      /\ IF Len(merged.rows) = 0
                         THEN /\ exit_code' = 1
                              /\ pc' = "exit"
                              /\ stage_log' = Append(stage_log,
                                                     Stage("load_data", FALSE))
                         ELSE /\ pc' = "analyze"
                              /\ stage_log' = Append(stage_log,
                                                     Stage("load_data", TRUE))
                              /\ UNCHANGED exit_code
    /\ UNCHANGED <<loadVars, movementVars, critical_sessions, classifyVars, callVars,
                   collision_time, phone_collision_time,
                   session_collision_time, phone_while_driving,
                   app_sessions_while_driving, uncaught, args>>

\* A variant of RunAnalysis whose stages work on the stored table itself:
\* when a stage raises, the table keeps what the stages before it did.
RunAnalysisInPlace ==
    /\ pc = "analyze"
    /\ ~merged_data.is_none
    /\ \E fault \in Faults :
          IF ~collision_time.is_none /\ ComparisonRaises(phone_collision_time)
          THEN /\ uncaught' = TRUE
               /\ pc' = "crashed"
               /\ UNCHANGED <<merged_data, app_sessions, phone_while_driving,
                              app_sessions_while_driving, exit_code, stage_log>>
          ELSE LET filtered == IF collision_time.is_none
                               THEN merged_data.rows
                               ELSE filter_critical_timeframe(
                                        merged_data.rows, phone_collision_time,
                                        args.window,
                                        default_analysis_window_after)
                   tagged   == analyze_phone_usage_patterns(filtered,
                                                            phone_collision_time)
                   paired   == analyze_app_usage_duration(tagged)
                   moving   == analyze_movement_patterns(paired.rows)
               IN  /\ UNCHANGED uncaught
                   /\ CASE fault = "phone_usage" ->
                             /\ exit_code' = 1
                             /\ pc' = "exit"
                             /\ stage_log' = Append(stage_log,
                                                    Stage("run_analysis", FALSE))
                             /\ merged_data' = Frame(filtered)
                             /\ UNCHANGED <<app_sessions, phone_while_driving,
                                            app_sessions_while_driving>>
                        [] fault = "movement" ->
                             /\ app_sessions' = paired.app_sessions
                             /\ exit_code' = 1
                             /\ pc' = "exit"
                             /\ stage_log' = Append(stage_log,
                                                    Stage("run_analysis", FALSE))
                             /\ merged_data' = Frame(paired.rows)
                             /\ UNCHANGED <<phone_while_driving,
                                            app_sessions_while_driving>>
                        [] fault = "none" ->
                             /\ app_sessions' = paired.app_sessions
                             /\ phone_while_driving' =
                                    analyze_phone_use_while_driving(moving)
                             /\ app_sessions_while_driving' =
                                    analyze_sessions_while_driving(
                                        paired.app_sessions, moving)
                             /\ merged_data' = Frame(moving)
                             /\ pc' = "outputs"
                             /\ stage_log' = Append(stage_log,
                                                    Stage("run_analysis", TRUE))
                             /\ UNCHANGED exit_code
    /\ UNCHANGED <<loadVars, movementVars, critical_sessions, timeline_data, location_data,
                   search_log, classifyVars, df, result_df, speeds,
                   collision_time, phone_collision_time,
                   session_collision_time, args>>

\* orchestrator.run_analysis(args.window), and main's `return 1` when it
\* returns False.  The filtering to the critical timeframe runs before the
\* try block; the four stages run inside it.
RunAnalysis ==
    /\ pc = "analyze"
    /\ ~merged_data.is_none
    /\ \E fault \in Faults :
          IF ~collision_time.is_none /\ ComparisonRaises(phone_collision_time)
          THEN /\ uncaught' = TRUE
               /\ pc' = "crashed"
               /\ UNCHANGED <<merged_data, app_sessions, phone_while_driving,
                              app_sessions_while_driving, exit_code, stage_log>>
          ELSE LET filtered == IF collision_time.is_none
                               THEN merged_data.rows
                               ELSE filter_critical_timeframe(
                                        merged_data.rows, phone_collision_time,
                                        args.window,
                                        default_analysis_window_after)
                   tagged   == analyze_phone_usage_patterns(filtered,
                                                            phone_collision_time)
                   paired   == analyze_app_usage_duration(tagged)
                   moving   == analyze_movement_patterns(paired.rows)
               IN  /\ UNCHANGED uncaught
                   /\ CASE fault = "phone_usage" ->
                             /\ exit_code' = 1
                             /\ pc' = "exit"
                             /\ stage_log' = Append(stage_log,
                                                    Stage("run_analysis", FALSE))
                             /\ UNCHANGED <<merged_data, app_sessions,
                                            phone_while_driving,
                                            app_sessions_while_driving>>
                        [] fault = "movement" ->
                             /\ app_sessions' = paired.app_sessions
                             /\ exit_code' = 1
                             /\ pc' = "exit"
                             /\ stage_log' = Append(stage_log,
                                                    Stage("run_analysis", FALSE))
                             /\ UNCHANGED <<merged_data, phone_while_driving,
                                            app_sessions_while_driving>>
                        [] fault = "none" ->
                             /\ app_sessions' = paired.app_sessions
                             /\ phone_while_driving' =
                                    analyze_phone_use_while_driving(moving)
                             /\ app_sessions_while_driving' =
                                    analyze_sessions_while_driving(
                                        paired.app_sessions, moving)
                             /\ merged_data' = Frame(moving)
                             /\ pc' = "outputs"
                             /\ stage_log' = Append(stage_log,
                                                    Stage("run_analysis", TRUE))
                             /\ UNCHANGED exit_code
    /\ UNCHANGED <<loadVars, movementVars, critical_sessions, timeline_data, location_data,
                   search_log, classifyVars, df, result_df, speeds,
                   collision_time, phone_collision_time,
                   session_collision_time, args>>

\* A mutant of GenerateOutputs: main returns 0 whatever generate_outputs
\* returned.
GenerateOutputsUnchecked ==
    /\ pc = "outputs"
    /\ ~merged_data.is_none
    /\ \E kml_success \in BOOLEAN, pdf_success \in BOOLEAN, raised \in BOOLEAN :
          stage_log' = Append(stage_log,
                              Stage("generate_outputs",
                                    ~raised /\ kml_success /\ pdf_success))
    /\ exit_code' = 0
    /\ pc' = "exit"
    /\ UNCHANGED <<loadVars, movementVars, critical_sessions, mergeVars, classifyVars,
                   callVars, collision_time, phone_collision_time,
                   session_collision_time, phone_while_driving,
                   app_sessions_while_driving, uncaught, args>>

\* orchestrator.generate_outputs and main's return: the two generators
\* succeed, report a failure, or raise inside the try block.
GenerateOutputs ==
    /\ pc = "outputs"
    /\ ~merged_data.is_none
    /\ \E kml_success \in BOOLEAN, pdf_success \in BOOLEAN, raised \in BOOLEAN :
          LET returned == ~raised /\ kml_success /\ pdf_success
          IN  /\ exit_code' = IF returned THEN 0 ELSE 1
              /\ stage_log' = Append(stage_log,
                                     Stage("generate_outputs", returned))
    /\ pc' = "exit"
    /\ UNCHANGED <<loadVars, movementVars, critical_sessions, mergeVars, classifyVars,
                   callVars, collision_time, phone_collision_time,
                   session_collision_time, phone_while_driving,
                   app_sessions_while_driving, uncaught, args>>

Next ==
    \/ SetCollisionDetails
    \/ NoCollisionDetails
    \/ LoadData
    \/ RunAnalysis
    \/ GenerateOutputs

Spec == Init /\ [][Next]_vars

-----------------------------------------------------------------------------
(* Claims about the merger (SpecMerge) *)

\* The merged rows that come from the input event with index label idx.
MergedRowsOf(idx) ==
    {k \in 1..Len(merged_data.rows) : merged_data.rows[k].index = idx}

BothCoordinates(event) == event.latitude # NaN /\ event.longitude # NaN

NonEmptyLocations == ~location_data.is_none /\ Len(location_data.rows) > 0

\* C1, as stated: for every location stream argument (non-empty, empty or
\* none), an event with both coordinates non-null is merged with
\* location_source = 'timeline_data' and its own coordinates, and no
\* nearest-fix search is made for it.
C1_AsStated ==
    pc = "merged" =>
        \A i \in 1..Len(timeline_data.rows) :
            LET ev == timeline_data.rows[i] IN
            BothCoordinates(ev) =>
                /\ ev.index \notin search_log
                /\ \A k \in MergedRowsOf(ev.index) :
                      /\ merged_data.rows[k].location_source = "timeline_data"
                      /\ merged_data.rows[k].latitude = ev.latitude
                      /\ merged_data.rows[k].longitude = ev.longitude

\* C1, amended: an event with both coordinates non-null keeps its own
\* coordinates and no nearest-fix search is made for it, for every location
\* stream argument; its location_source is 'timeline_data' when the location
\* stream is non-empty and 'timeline_only' when it is empty or none.
C1_OwnCoordinatesKept ==
    pc = "merged" =>
        \A i \in 1..Len(timeline_data.rows) :
            LET ev == timeline_data.rows[i] IN
            BothCoordinates(ev) =>
                /\ ev.index \notin search_log
                /\ \A k \in MergedRowsOf(ev.index) :
                      /\ merged_data.rows[k].location_source =
                            (IF NonEmptyLocations THEN "timeline_data"
                                                  ELSE "timeline_only")
                      /\ merged_data.rows[k].latitude = ev.latitude
                      /\ merged_data.rows[k].longitude = ev.longitude

\* C1, witness: a merge against a non-empty location stream in which one
\* event with its own coordinates was tagged timeline_data while the search
\* ran for another event.
C1_Witness ==
    /\ pc = "merged"
    /\ NonEmptyLocations
    /\ search_log # {}
    /\ \E i \in 1..Len(timeline_data.rows) :
          /\ BothCoordinates(timeline_data.rows[i])
          /\ \E k \in MergedRowsOf(timeline_data.rows[i].index) :
                merged_data.rows[k].location_source = "timeline_data"

\* The least absolute time difference between an event and any fix is d.
IsMinDiff(ev, d) ==
    /\ \E j \in 1..Len(location_data.rows) :
          Abs(location_data.rows[j].timestamp - ev.timestamp) = d
    /\ \A j \in 1..Len(location_data.rows) :
          Abs(location_data.rows[j].timestamp - ev.timestamp) >= d

\* C2: an event without both coordinates, merged against a non-empty
\* location stream, is tagged 'location_tracking' exactly when the least
\* absolute time difference to a fix is <= the tolerance, and then carries
\* the latitude, longitude and accuracy of a fix attaining that minimum;
\* otherwise it is tagged 'no_location' with null latitude and longitude.
C2_NearestFixWithinTolerance ==
    (pc = "merged" /\ NonEmptyLocations) =>
        \A i \in 1..Len(timeline_data.rows) :
            LET ev == timeline_data.rows[i] IN
            ~BothCoordinates(ev) =>
                \A k \in MergedRowsOf(ev.index) :
                    LET row == merged_data.rows[k]
                        within == \E d \in 0..(location_match_tolerance_minutes * 60) :
                                      IsMinDiff(ev, d)
                    IN  /\ row.location_source = "location_tracking" <=> within
                        /\ within =>
                              \E j \in 1..Len(location_data.rows) :
                                  LET fix == location_data.rows[j] IN
                                  /\ IsMinDiff(ev, Abs(fix.timestamp - ev.timestamp))
                                  /\ row.latitude = fix.latitude
                                  /\ row.longitude = fix.longitude
                                  /\ row.accuracy = fix.accuracy
                        /\ ~within =>
                              /\ row.location_source = "no_location"
                              /\ row.latitude = NaN
                              /\ row.longitude = NaN

\* C2, witness: one event matched to a fix exactly the tolerance away, and
\* another event left without location.
C2_Witness ==
    /\ pc = "merged"
    /\ NonEmptyLocations
    /\ \E i \in 1..Len(timeline_data.rows) :
          LET ev == timeline_data.rows[i] IN
          /\ ~BothCoordinates(ev)
          /\ IsMinDiff(ev, location_match_tolerance_minutes * 60)
          /\ \E k \in MergedRowsOf(ev.index) :
                merged_data.rows[k].location_source = "location_tracking"
    /\ \E k \in 1..Len(merged_data.rows) :
          merged_data.rows[k].location_source = "no_location"

\* C3: the returned stream never holds two events with the same
\* (timestamp, event_type, details), whether or not a location stream is
\* supplied.
C3_NoDuplicateEvents ==
    pc = "merged" =>
        \A i, j \in 1..Len(merged_data.rows) :
            i # j => MergeKey(merged_data.rows[i]) # MergeKey(merged_data.rows[j])

-----------------------------------------------------------------------------
(* Claims about the classifier (SpecClassify) *)

TypeMentions(p) == Mentions(classify_args.event_type, p)

DirectionGiven ==
    \/ Mentions(classify_args.direction, "incoming")
    \/ Mentions(classify_args.direction, "outgoing")

CallRule == (TypeMentions("call") \/ TypeMentions("phone")) /\ DirectionGiven

CallLogRule == TypeMentions("call log")

SmsRule ==
    TypeMentions("sms") \/ TypeMentions("message") \/ TypeMentions("instant message")

SocialRule ==
    \/ TypeMentions("social media")
    \/ \E a \in {"snapchat", "instagram", "facebook", "twitter", "tiktok"} :
          Mentions(classify_args.app_name, a) \/ Mentions(classify_args.description, a)
    \/ \E a \in {"youtube", "spotify", "browser", "chrome", "safari"} :
          Mentions(classify_args.app_name, a)

NotificationRule ==
    TypeMentions("notification") \/ TypeMentions("alert")
        \/ TypeMentions("device notifications")

BackgroundRule ==
    TypeMentions("log entries") \/ TypeMentions("network connections")
        \/ TypeMentions("system") \/ TypeMentions("connection")

\* The tag of the first rule of an ordered list <<matches, tag>> that matches.
FirstMatch(rules) ==
    LET hits == {i \in 1..Len(rules) : rules[i][1]}
    IN  IF hits = {} THEN "default"
        ELSE rules[CHOOSE i \in hits : \A k \in hits : i <= k][2]

\* C7, as stated: every event whose type contains 'call log' is classified
\* call_active, whatever its direction, description and app name.
C7_AsStated ==
    (pc = "classified" /\ CallLogRule) => forensic_priority = "call_active"

\* C7, amended: an event whose type contains 'call log' is classified
\* call_active unless it has no incoming/outgoing direction and the message
\* rule or the social-media rule matches it, which come first (sms_active,
\* then social_media_active); the 'call log' alternative takes precedence
\* only over the notification and background rules.
C7_CallLogAfterMessageAndSocial ==
    (pc = "classified" /\ CallLogRule) =>
        forensic_priority =
            (IF DirectionGiven THEN "call_active"
             ELSE IF SmsRule THEN "sms_active"
             ELSE IF SocialRule THEN "social_media_active"
             ELSE "call_active")

\* C7, witness: a 'Call Log' event without direction that no earlier rule
\* matches, classified call_active.
C7_Witness ==
    /\ pc = "classified"
    /\ CallLogRule /\ ~DirectionGiven /\ ~SmsRule /\ ~SocialRule
    /\ forensic_priority = "call_active"

\* C8, as stated: the tag is that of the first matching rule in the order
\* call_active (type mentions call/phone and direction mentions
\* incoming/outgoing), sms_active, social_media_active,
\* notification_passive, system_background, default.
C8_AsStated ==
    pc = "classified" =>
        forensic_priority =
            FirstMatch(<< <<CallRule, "call_active">>,
                          <<SmsRule, "sms_active">>,
                          <<SocialRule, "social_media_active">>,
                          <<NotificationRule, "notification_passive">>,
                          <<BackgroundRule, "system_background">> >>)

\* C8, amended: the tag is one of the six tags, that of the first matching
\* rule in the order call_active (type mentions call/phone and direction
\* mentions incoming/outgoing), sms_active, social_media_active, call_active
\* again (type mentions 'call log'), notification_passive,
\* system_background, default; a 'Call' with direction 'incoming' is
\* call_active even if its description contains 'notification', and a type
\* mentioning 'message' is sms_active even for a known social app.
C8_FirstMatchWins ==
    pc = "classified" =>
        /\ forensic_priority \in
              {"call_active", "sms_active", "social_media_active",
               "notification_passive", "system_background", "default"}
        /\ forensic_priority =
              FirstMatch(<< <<CallRule, "call_active">>,
                            <<SmsRule, "sms_active">>,
                            <<SocialRule, "social_media_active">>,
                            <<CallLogRule, "call_active">>,
                            <<NotificationRule, "notification_passive">>,
                            <<BackgroundRule, "system_background">> >>)
        /\ (classify_args.event_type = "Call" /\ classify_args.direction = "incoming")
              => forensic_priority = "call_active"
        /\ (TypeMentions("message") /\ ~CallRule) => forensic_priority = "sms_active"

\* C8, witness: a 'Call' with direction 'incoming' whose description contains
\* 'notification', classified call_active.
C8_Witness ==
    /\ pc = "classified"
    /\ classify_args.event_type = "Call"
    /\ classify_args.direction = "incoming"
    /\ Mentions(classify_args.description, "notification")
    /\ forensic_priority = "call_active"

-----------------------------------------------------------------------------
(* Claims about the session pairing (SpecSessions) *)

\* The row of the analyzed frame with index label idx.
EventRow(idx) == df.rows[idx + 1]

\* An end-annotated event of the start's app, strictly after the start and
\* at most one hour after it.
QualifiesAsEnd(e, start_event) ==
    /\ e.time_annotation = "end"
    /\ e.app_name = start_event.app_name
    /\ e.timestamp > start_event.timestamp
    /\ e.timestamp <= start_event.timestamp + 3600

\* C4: every session starts at a start-annotated event and ends at the
\* earliest end-annotated event of the same app strictly after the start and
\* at most one hour after it; no other end is chosen for that start, and
\* each start event yields at most one session.
C4_EarliestQualifyingEnd ==
    pc = "sessions_done" =>
        /\ \A n \in 1..Len(app_sessions) :
              LET s  == app_sessions[n]
                  st == EventRow(s.start_row)
                  en == EventRow(s.end_row)
              IN  /\ st.time_annotation = "start"
                  /\ s.start_time = st.timestamp
                  /\ s.app_name = st.app_name
                  /\ QualifiesAsEnd(en, st)
                  /\ s.end_time = en.timestamp
                  /\ \A k \in 1..Len(df.rows) :
                        QualifiesAsEnd(df.rows[k], st) =>
                            df.rows[k].timestamp >= s.end_time
        /\ \A m, n \in 1..Len(app_sessions) :
              m # n => app_sessions[m].start_row # app_sessions[n].start_row

\* C4, witness: a session whose start had two qualifying ends at different
\* times.
C4_Witness ==
    /\ pc = "sessions_done"
    /\ \E n \in 1..Len(app_sessions) :
          \E k \in 1..Len(df.rows) :
              /\ QualifiesAsEnd(df.rows[k], EventRow(app_sessions[n].start_row))
              /\ df.rows[k].timestamp > app_sessions[n].end_time

\* C5: for every session, end_time > start_time, duration_seconds =
\* end_time - start_time, 0 < duration_seconds <= 3600, and app_name is the
\* app of both its start event and its end event.
C5_SessionDuration ==
    pc = "sessions_done" =>
        \A n \in 1..Len(app_sessions) :
            LET s == app_sessions[n] IN
            /\ s.end_time > s.start_time
            /\ s.duration_seconds = s.end_time - s.start_time
            /\ s.duration_seconds > 0
            /\ s.duration_seconds <= 3600
            /\ s.app_name = EventRow(s.start_row).app_name
            /\ s.app_name = EventRow(s.end_row).app_name

\* C5, witness: a session of exactly one hour, from a frame that also holds
\* an end event of that app at the start's own timestamp.
C5_Witness ==
    /\ pc = "sessions_done"
    /\ \E n \in 1..Len(app_sessions) :
          /\ app_sessions[n].duration_seconds = 3600
          /\ \E k \in 1..Len(df.rows) :
                /\ df.rows[k].time_annotation = "end"
                /\ df.rows[k].app_name = app_sessions[n].app_name
                /\ df.rows[k].timestamp = app_sessions[n].start_time

-----------------------------------------------------------------------------
(* Claims about the speed computation (SpecSpeeds) *)

\* Seconds between point i and the point before it.
ElapsedAt(i) == df.rows[i].timestamp - df.rows[i - 1].timestamp

\* The speed computed for point i from the point before it, in milli-mph.
ComputedSpeedAt(i) ==
    (((Abs(df.rows[i].latitude - df.rows[i - 1].latitude) * 111195)
          \div ElapsedAt(i)) * 2237) \div 1000

\* C6: whenever the speed computed for a point (distance to the previous
\* point / elapsed seconds x 2.237) exceeds max_reasonable_speed (120 mph),
\* the speed emitted for that point equals the speed emitted for the
\* previous point (0 when the point is at index 1), never the computed value.
C6_ImpossibleSpeedReusesPrevious ==
    pc = "speeds_done" =>
        /\ Len(speeds) = Len(df.rows)
        /\ \A i \in 2..Len(df.rows) :
              (ElapsedAt(i) > 0 /\ ComputedSpeedAt(i) > 120000) =>
                  /\ speeds[i] = speeds[i - 1]
                  /\ speeds[i] # ComputedSpeedAt(i)
                  /\ (i = 2 => speeds[i] = 0)

\* C6, witness: a point at least 10 s after the previous one whose computed
\* speed is above 120 mph and that repeats a previous speed above 0.
C6_Witness ==
    /\ pc = "speeds_done"
    /\ \E i \in 3..Len(df.rows) :
          /\ ElapsedAt(i) >= 10
          /\ ComputedSpeedAt(i) > 120000
          /\ speeds[i] = speeds[i - 1]
          /\ speeds[i] > 0

-----------------------------------------------------------------------------
(* Claims about a command-line run (Spec) *)

\* The scenario's timeline: Instagram opened at 10:00:00, another event at
\* 10:00:30, Instagram left at 10:02:00; no event has coordinates.
ScenarioTimeline ==
    Frame(Indexed(<<
        TimelineEvent(0, "start", "Applications Usage Log", "nan",
                      "Opened Instagram", NaN, NaN),
        TimelineEvent(30, "none", "Call Log", "Incoming", "nan", NaN, NaN),
        TimelineEvent(120, "end", "Applications Usage Log", "nan",
                      "Opened Instagram", NaN, NaN)>>))

\* The scenario's fixes: (40.0, -74.0) at 10:00:00, (40.01, -74.0) at 10:02:00.
ScenarioFixes ==
    Frame(<<LocationFix(0, 40000, -74000, NaN),
            LocationFix(120, 40010, -74000, NaN)>>)

\* The analysis of the scenario has completed, without a collision time.
ScenarioAnalyzed ==
    /\ pc = "outputs"
    /\ timeline_data = ScenarioTimeline
    /\ location_data = ScenarioFixes
    /\ collision_time.is_none

\* 1.1 km in 120 s, in milli-mph (20.7 mph).
ScenarioTripSpeed == ((((40010 - 40000) * 111195) \div 120) * 2237) \div 1000

\* 1.1 km in the 90 s between the second and the third event, in milli-mph
\* (27.6 mph).
ScenarioLastLegSpeed == ((((40010 - 40000) * 111195) \div 90) * 2237) \div 1000

\* Exactly one session, of Instagram, 120 s long, reported as driving.
ScenarioOneDrivingSession ==
    /\ Len(app_sessions) = 1
    /\ app_sessions[1].app_name = "Instagram"
    /\ app_sessions[1].duration_seconds = 120
    /\ Len(app_sessions_while_driving) = 1
    /\ app_sessions_while_driving[1].app_name = "Instagram"
    /\ app_sessions_while_driving[1].avg_speed_during_session > 5000

\* C9 as stated: the scenario yields one Instagram session of 120 s,
\* reported as driving, whose average speed is about 1.1 km / 120 s
\* (within 1 mph of it, which includes 20.5 mph).
C9_AsStated ==
    ScenarioAnalyzed =>
        /\ ScenarioOneDrivingSession
        /\ Abs(app_sessions_while_driving[1].avg_speed_during_session
                   - ScenarioTripSpeed) <= 1000

\* C9, amended: the scenario yields one Instagram session of 120 s, reported
\* as driving against the 5 mph threshold; the three events get the speeds
\* 0, 0 and 1.1 km / 90 s (27.6 mph), and the session's average speed is the
\* mean of the speeds of its own two events, 13.8 mph.
C9_ScenarioAverageOfEventSpeeds ==
    ScenarioAnalyzed =>
        /\ ScenarioOneDrivingSession
        /\ Len(merged_data.rows) = 3
        /\ merged_data.rows[1].speed_mph = 0
        /\ merged_data.rows[2].speed_mph = 0
        /\ merged_data.rows[3].speed_mph = ScenarioLastLegSpeed
        /\ app_sessions_while_driving[1].avg_speed_during_session
               = (0 + ScenarioLastLegSpeed) \div 2

\* C9, witness: the scenario has been analyzed and its session is reported
\* as driving.
C9_Witness ==
    /\ ScenarioAnalyzed
    /\ Len(app_sessions_while_driving) = 1
    /\ app_sessions_while_driving[1].duration_seconds = 120

\* C10: no exception escapes the top-level run: a failure in any step
\* (parsing the collision time, merging, the critical-timeframe filtering,
\* each analysis stage) ends as a False / nonzero result, never as an
\* exception that leaves main.
C10_NoExceptionEscapes == uncaught = FALSE

\* What identifies an event in a table: its time, annotation, type,
\* direction and details, in row order.
EventsOf(rows) ==
    [i \in 1..Len(rows) |->
        <<rows[i].timestamp, rows[i].time_annotation, rows[i].event_type,
          rows[i].direction, rows[i].details>>]

\* A step of the run is a successful run_analysis.
AnalysisSucceeds == pc = "analyze" /\ pc' = "outputs"

InCriticalTimeframe(rows) ==
    IF collision_time.is_none THEN rows
    ELSE RowsAt(rows, {i \in 1..Len(rows) :
                          /\ rows[i].timestamp >= collision_time.t - 60 * args.window
                          /\ rows[i].timestamp <= collision_time.t + 120})

LoadDataCalled == Len(stage_log) >= 1 /\ stage_log[1].stage = "load_data"

\* C12: if the timeline load yields no data, load_data returns False and no
\* merge or analysis happens (main returns nonzero); if the timeline loads
\* but the location load yields no data, load_data still succeeds and every
\* merged event is tagged 'timeline_only'.
C12_LoadFailureTaxonomy ==
    LoadDataCalled =>
        /\ (timeline_data.is_none \/ Len(timeline_data.rows) = 0) =>
              /\ stage_log = <<[stage |-> "load_data", returned |-> FALSE]>>
              /\ pc = "exit"
              /\ exit_code = 1
              /\ merged_data.is_none
              /\ search_log = {}
              /\ app_sessions = <<>>
              /\ phone_while_driving = <<>>
        /\ (/\ ~timeline_data.is_none
            /\ Len(timeline_data.rows) > 0
            /\ (location_data.is_none \/ Len(location_data.rows) = 0)) =>
              /\ stage_log[1].returned
              /\ ~merged_data.is_none
              /\ search_log = {}
              /\ \A i \in 1..Len(merged_data.rows) :
                    merged_data.rows[i].location_source = "timeline_only"

\* C12, witness: a run without location data has loaded and analyzed its
\* timeline.
C12_Witness ==
    /\ LoadDataCalled
    /\ pc = "outputs"
    /\ location_data.is_none
    /\ Len(merged_data.rows) >= 2
    /\ \A i \in 1..Len(merged_data.rows) :
          merged_data.rows[i].location_source = "timeline_only"

\* The stages in the order main calls them.
StageOrder == <<"load_data", "run_analysis", "generate_outputs">>

\* C13: the run is strictly staged: the stages are called in the order
\* load_data, run_analysis, generate_outputs; main returns 0 if and only if
\* each of the three returned True; as soon as one returns False main
\* returns nonzero, and no later stage is started.
C13_StrictlyStaged ==
    /\ Len(stage_log) <= 3
    /\ \A i \in 1..Len(stage_log) : stage_log[i].stage = StageOrder[i]
    /\ \A i \in 1..(Len(stage_log) - 1) : stage_log[i].returned
    /\ exit_code = 0 <=>
          (Len(stage_log) = 3 /\ \A i \in 1..3 : stage_log[i].returned)
    /\ (Len(stage_log) > 0 /\ ~stage_log[Len(stage_log)].returned) =>
          (pc = "exit" /\ exit_code = 1)
    /\ exit_code = 1 =>
          (Len(stage_log) > 0 /\ ~stage_log[Len(stage_log)].returned)
    /\ exit_code \in {-1, 0, 1}

\* C13, witness: main has returned nonzero after a failed load, with no
\* analysis and no outputs.
C13_Witness ==
    /\ pc = "exit"
    /\ exit_code = 1
    /\ stage_log = <<[stage |-> "load_data", returned |-> FALSE]>>
    /\ merged_data.is_none

\* C14: the location-match tolerance given on the command line (--tolerance)
\* is the tolerance the merger applies in that run: every event load_data
\* matched to a location fix has that fix within --tolerance minutes.
C14_CliToleranceApplied ==
    (pc = "analyze" /\ ~location_data.is_none) =>
        \A i \in 1..Len(merged_data.rows) :
            merged_data.rows[i].location_source = "location_tracking" =>
                \E j \in 1..Len(location_data.rows) :
                    /\ location_data.rows[j].latitude = merged_data.rows[i].latitude
                    /\ location_data.rows[j].longitude = merged_data.rows[i].longitude
                    /\ Abs(location_data.rows[j].timestamp
                               - merged_data.rows[i].timestamp)
                           <= 60 * args.tolerance

\* C15: the collision reference is set at most once per run, before
\* load_data and run_analysis, and is read-only thereafter: the orchestrator
\* and both analyzers hold the same instant, no step after the start of main
\* changes it, and a step that sets it finds it unset.
C15_CollisionReferenceSetOnce ==
    [][/\ phone_collision_time' = collision_time'
       /\ session_collision_time' = collision_time'
       /\ pc # "main" =>
              /\ collision_time' = collision_time
              /\ phone_collision_time' = phone_collision_time
              /\ session_collision_time' = session_collision_time
       /\ collision_time' # collision_time =>
              /\ collision_time.is_none
              /\ pc = "main"
              /\ stage_log = <<>>]_vars

\* C15, witness: a run with a collision time has loaded, analyzed and
\* generated its outputs, and every holder still has that instant.
C15_Witness ==
    /\ pc = "exit"
    /\ exit_code = 0
    /\ ~collision_time.is_none
    /\ phone_collision_time = collision_time
    /\ session_collision_time = collision_time

-----------------------------------------------------------------------------
(* Claims about the loaders (SpecLoad) *)

\* The Time text is in one of the known formats.
MatchesKnownPattern(cell) ==
    \E f \in 1..Len(TIME_FORMATS) : ~IsNa(Strptime(cell, TIME_FORMATS[f]))

\* The positions of the sheet's rows whose Time is in a known format, in
\* sheet order.
ParsedPositions(sheet) ==
    LET matching == {i \in 1..Len(sheet) : MatchesKnownPattern(sheet[i].Time)}
    IN  RowsAt([i \in 1..Len(sheet) |-> i], matching)

\* C16: every event of the stream load_timeline returns has a non-null
\* timestamp; a raw row whose Time matches none of the known formats is
\* dropped and counted as skipped, every other raw row is loaded (with the
\* instant and the annotation of its Time), and the stream is sorted
\* ascending by timestamp.
C16_TimelineLoadedWithoutNullTimestamps ==
    pc = "timeline_loaded" =>
        LET parsed == ParsedPositions(timeline_sheet)
            rows == timeline_data.rows
        IN  /\ skipped_events = Len(timeline_sheet) - Len(parsed)
            /\ timeline_data.is_none <=> Len(parsed) = 0
            /\ ~timeline_data.is_none =>
                   /\ Len(rows) = Len(parsed)
                   /\ \A i \in 1..Len(rows) : ~IsNa(rows[i].timestamp)
                   /\ IsTimeSorted(rows)
                   /\ \A k \in 1..Len(parsed) :
                          \E i \in 1..Len(rows) :
                              LET time == timeline_sheet[parsed[k]].Time
                              IN  /\ rows[i].index = k - 1
                                  /\ rows[i].timestamp
                                         = parse_cellebrite_time(time).timestamp
                                  /\ rows[i].time_annotation = time.annotation

\* C16, witness: a sheet with a row whose Time is in no known format and two
\* rows out of time order was loaded: one row skipped, the others loaded and
\* put in time order.
C16_Witness ==
    /\ pc = "timeline_loaded"
    /\ ~timeline_data.is_none
    /\ skipped_events = 1
    /\ Len(timeline_data.rows) = 2
    /\ timeline_data.rows[1].index > timeline_data.rows[2].index
    /\ timeline_data.rows[1].timestamp < timeline_data.rows[2].timestamp

\* The fix the location loader makes of a raw row that it keeps.
KeptFix(row) ==
    LocationFix(parse_cellebrite_time(row.Time).timestamp,
                ToNumeric(row.Latitude), ToNumeric(row.Longitude),
                ToNumeric(row.Accuracy))

\* The raw row has a Time in a known format and numeric coordinates inside
\* the configured bounds.
IsKeptRow(row) ==
    /\ MatchesKnownPattern(row.Time)
    /\ row.Latitude.numeric /\ ~IsNa(row.Latitude.value)
    /\ row.Longitude.numeric /\ ~IsNa(row.Longitude.value)
    /\ row.Latitude.value \in min_latitude..max_latitude
    /\ row.Longitude.value \in min_longitude..max_longitude

\* C17: the stream load_locations returns has no two fixes with the same
\* (timestamp, latitude, longitude); of the raw rows with one triple the
\* first is the one retained; every retained fix has coordinates inside the
\* configured bounds.
C17_LocationsDeduplicatedInBounds ==
    (pc = "locations_loaded" /\ ~location_data.is_none) =>
        LET rows == location_data.rows
            sheet == location_sheet
            kept == {i \in 1..Len(sheet) : IsKeptRow(sheet[i])}
            first == {i \in kept :
                         \A j \in kept :
                             j < i => FixKey(KeptFix(sheet[j])) # FixKey(KeptFix(sheet[i]))}
        IN  /\ NoDuplicateFix(rows)
            /\ \A i \in 1..Len(rows) :
                   /\ rows[i].latitude \in min_latitude..max_latitude
                   /\ rows[i].longitude \in min_longitude..max_longitude
            /\ Len(rows) = Cardinality(first)
            /\ \A i \in first : \E k \in 1..Len(rows) : rows[k] = KeptFix(sheet[i])

\* C17, witness: the sheet held the same fix twice, written with two
\* different Time texts and two different accuracies, and a fix outside the
\* bounds; the stream holds the first of the two only.
C17_Witness ==
    /\ pc = "locations_loaded"
    /\ Len(location_sheet) = 3
    /\ location_sheet[1].Time # location_sheet[2].Time
    /\ IsKeptRow(location_sheet[1])
    /\ IsKeptRow(location_sheet[2])
    /\ FixKey(KeptFix(location_sheet[1])) = FixKey(KeptFix(location_sheet[2]))
    /\ location_sheet[1].Accuracy # location_sheet[2].Accuracy
    /\ MatchesKnownPattern(location_sheet[3].Time)
    /\ ~IsKeptRow(location_sheet[3])
    /\ ~location_data.is_none
    /\ location_data.rows = <<KeptFix(location_sheet[1])>>

-----------------------------------------------------------------------------
(* Claims about the session analyzer's queries (SpecQueries) *)

\* The positions of the enriched events with the session's app and a
\* timestamp in [start_time, end_time].
EventsDuring(session) ==
    {i \in 1..Len(df.rows) :
        /\ df.rows[i].app_name = session.app_name
        /\ df.rows[i].timestamp \in session.start_time..session.end_time}

\* There is such an event and the mean speed of those events is strictly
\* above the driving threshold.
UsedWhileDriving(session) ==
    /\ EventsDuring(session) # {}
    /\ SumSpeed(RowsAt(df.rows, EventsDuring(session)))
           > driving_threshold * Cardinality(EventsDuring(session))

\* C18: analyze_sessions_while_driving reports a session if and only if at
\* least one enriched event has the session's app and a timestamp in
\* [start_time, end_time] (inclusive) and the mean speed_mph of those events
\* is strictly greater than the driving threshold; the reported sessions are
\* in the order of the stored ones, each with its own fields, and its
\* avg_speed_during_session is that mean.
C18_SessionsWhileDriving ==
    pc = "sessions_while_driving_done" =>
        LET driving == RowsAt(app_sessions,
                              {n \in 1..Len(app_sessions) :
                                  UsedWhileDriving(app_sessions[n])})
        IN  /\ Len(app_sessions_while_driving) = Len(driving)
            /\ \A k \in 1..Len(driving) :
                   LET reported == app_sessions_while_driving[k]
                       during == RowsAt(df.rows, EventsDuring(driving[k]))
                   IN  /\ \A f \in DOMAIN driving[k] : reported[f] = driving[k][f]
                       /\ reported.avg_speed_during_session
                              = SumSpeed(during) \div Len(during)

\* C18, witness: the stored session is reported; two events of its app lie
\* in its interval, one at its end time above the threshold and one exactly
\* at the threshold, and a third event of the app lies outside the interval.
C18_Witness ==
    /\ pc = "sessions_while_driving_done"
    /\ Len(app_sessions) = 1
    /\ Len(app_sessions_while_driving) = 1
    /\ Cardinality(EventsDuring(app_sessions[1])) = 2
    /\ \E i, j \in EventsDuring(app_sessions[1]) :
           /\ df.rows[i].timestamp = app_sessions[1].end_time
           /\ df.rows[i].speed_mph > driving_threshold
           /\ df.rows[j].speed_mph = driving_threshold
    /\ \E i \in 1..Len(df.rows) :
           /\ i \notin EventsDuring(app_sessions[1])
           /\ df.rows[i].app_name = app_sessions[1].app_name

\* C19: get_critical_sessions(windowMinutes) returns exactly the sessions
\* whose start_time lies in [collisionTime - windowMinutes, collisionTime]
\* (both ends inclusive), and returns none when no collision time is set or
\* no sessions exist.
C19_CriticalSessionsInWindow ==
    pc \in {"critical_sessions_done", "critical_sessions_raised"} =>
        /\ pc = "critical_sessions_done"
        /\ critical_sessions
               = IF session_collision_time.is_none \/ Len(app_sessions) = 0
                 THEN <<>>
                 ELSE RowsAt(app_sessions,
                             {i \in 1..Len(app_sessions) :
                                 app_sessions[i].start_time
                                     \in (session_collision_time.t - 60 * args.window)
                                             ..session_collision_time.t})

-----------------------------------------------------------------------------
(* A further claim about the session pairing (SpecSessions) *)

\* The positions of the start-annotated rows of the analyzed frame.
StartRows == {i \in 1..Len(df.rows) : df.rows[i].time_annotation = "start"}

\* The positions of the rows that qualify as an end of the start at row i.
QualifyingEnds(i) ==
    {k \in 1..Len(df.rows) : QualifiesAsEnd(df.rows[k], df.rows[i])}

\* The sessions whose start is the row at position i.
SessionsOfStart(i) ==
    {n \in 1..Len(app_sessions) : app_sessions[n].start_row = df.rows[i].index}

\* C20: the pairing is greedy and unreserved.  Each start event with at
\* least one qualifying end (same app, strictly later, within one hour)
\* yields exactly one session, which ends at the earliest of its qualifying
\* ends whether or not another session ends there too; a start with no
\* qualifying end yields no session; so the number of sessions is the number
\* of starts with a qualifying end, and two starts of one app that precede
\* one end within the hour each get a session ending at that end.
C20_GreedyUnreservedPairing ==
    pc = "sessions_done" =>
        /\ Len(app_sessions)
               = Cardinality({i \in StartRows : QualifyingEnds(i) # {}})
        /\ \A i \in StartRows :
               IF QualifyingEnds(i) = {}
               THEN SessionsOfStart(i) = {}
               ELSE /\ Cardinality(SessionsOfStart(i)) = 1
                    /\ \A n \in SessionsOfStart(i) :
                           /\ EventRow(app_sessions[n].end_row).time_annotation = "end"
                           /\ \A k \in QualifyingEnds(i) :
                                  app_sessions[n].end_time <= df.rows[k].timestamp
                           /\ \E k \in QualifyingEnds(i) :
                                  app_sessions[n].end_time = df.rows[k].timestamp
        /\ \A i, j \in StartRows :
               \A k \in QualifyingEnds(i) \cap QualifyingEnds(j) :
                   (/\ i # j
                    /\ \A m \in QualifyingEnds(i) \cup QualifyingEnds(j) :
                           df.rows[k].timestamp <= df.rows[m].timestamp)
                       => \A n \in SessionsOfStart(i) \cup SessionsOfStart(j) :
                              app_sessions[n].end_time = df.rows[k].timestamp

\* C20, witness: two start events of one app at different times and one end
\* event within an hour of both: two sessions, both ending at that end.
C20_Witness ==
    /\ pc = "sessions_done"
    /\ Len(df.rows) = 3
    /\ Len(app_sessions) = 2
    /\ app_sessions[1].start_row # app_sessions[2].start_row
    /\ app_sessions[1].start_time < app_sessions[2].start_time
    /\ app_sessions[1].end_row = app_sessions[2].end_row
    /\ app_sessions[1].app_name = app_sessions[2].app_name

\* C20, second case: a start whose only end event of its app is more than
\* an hour later: the analysis finishes with no session.
C20_StartWithoutEnd ==
    /\ pc = "sessions_done"
    /\ Len(app_sessions) = 0
    /\ \E i \in StartRows :
           \E k \in 1..Len(df.rows) :
               /\ df.rows[k].time_annotation = "end"
               /\ df.rows[k].app_name = df.rows[i].app_name
               /\ df.rows[k].timestamp > df.rows[i].timestamp + session_window_seconds

-----------------------------------------------------------------------------
(* Further claims about the merger (SpecMerge) *)

\* The positions of the location stream whose fix attains the minimum
\* absolute time difference to the instant t.
NearestPositions(t) ==
    {j \in 1..Len(location_data.rows) :
        \A k \in 1..Len(location_data.rows) :
            Abs(location_data.rows[j].timestamp - t)
                <= Abs(location_data.rows[k].timestamp - t)}

\* The first of them in the stream's order.
FirstNearest(t) ==
    location_data.rows[CHOOSE j \in NearestPositions(t) :
                           \A k \in NearestPositions(t) : j <= k]

\* C21: when two or more fixes attain the same minimum absolute time
\* difference to an event, the fix the nearest-fix search adopts is the one
\* that comes first in the location stream's order.
C21_FirstFixOnTie ==
    (pc = "merged" /\ NonEmptyLocations) =>
        \A i \in 1..Len(merged_data.rows) :
            merged_data.rows[i].location_source = "location_tracking" =>
                LET adopted == FirstNearest(merged_data.rows[i].timestamp)
                IN  /\ merged_data.rows[i].latitude = adopted.latitude
                    /\ merged_data.rows[i].longitude = adopted.longitude
                    /\ merged_data.rows[i].accuracy = adopted.accuracy

\* C21, witness: an event lies midway between two fixes with different
\* coordinates, one before and one after it, and has the earlier one's.
C21_Witness ==
    /\ pc = "merged"
    /\ NonEmptyLocations
    /\ \E i \in 1..Len(merged_data.rows) :
           LET t == merged_data.rows[i].timestamp
           IN  /\ merged_data.rows[i].location_source = "location_tracking"
               /\ NearestPositions(t) = {1, 2}
               /\ location_data.rows[1].timestamp < t
               /\ location_data.rows[2].timestamp > t
               /\ location_data.rows[1].latitude # location_data.rows[2].latitude
               /\ merged_data.rows[i].latitude = location_data.rows[1].latitude

-----------------------------------------------------------------------------
(* Further claims about the speed computation (SpecSpeeds) *)

\* C22, as stated: the first point's speed is 0; a later point less than
\* min_time_diff_seconds after the point before it repeats the speed emitted
\* for that point; every other point has the speed computed from the point
\* before it (distance / elapsed seconds, in mph).
C22_AsStated ==
    pc = "speeds_done" =>
        /\ Len(speeds) = Len(df.rows)
        /\ Len(speeds) >= 1 => speeds[1] = 0
        /\ \A i \in 2..Len(df.rows) :
               IF ElapsedAt(i) < min_time_diff_seconds
               THEN speeds[i] = speeds[i - 1]
               ELSE speeds[i] = ComputedSpeedAt(i)

\* C22, amended: as above, except that a computed speed above
\* max_reasonable_speed is not emitted: the point repeats the speed emitted
\* for the point before it.
C22_SpeedFromPreviousPoint ==
    pc = "speeds_done" =>
        /\ Len(speeds) = Len(df.rows)
        /\ Len(speeds) >= 1 => speeds[1] = 0
        /\ \A i \in 2..Len(df.rows) :
               IF ElapsedAt(i) < min_time_diff_seconds
               THEN speeds[i] = speeds[i - 1]
               ELSE IF ComputedSpeedAt(i) > max_reasonable_speed
               THEN speeds[i] = speeds[i - 1]
               ELSE speeds[i] = ComputedSpeedAt(i)

\* C22, witness: the second point is exactly min_time_diff_seconds after
\* the first and has its computed speed, above 0; the third is at another
\* place at the second's own timestamp and repeats that speed.
C22_Witness ==
    /\ pc = "speeds_done"
    /\ Len(df.rows) = 3
    /\ ElapsedAt(2) = min_time_diff_seconds
    /\ speeds[2] = ComputedSpeedAt(2)
    /\ speeds[2] > 0
    /\ ElapsedAt(3) = 0
    /\ df.rows[3].latitude # df.rows[2].latitude
    /\ speeds[3] = speeds[2]

-----------------------------------------------------------------------------
(* Claims about the movement analysis (SpecMovement) *)

\* The location points with the speed and the movement type computed for
\* them.
SpeedBearingPoints == _calculate_speeds_and_movement(movement_points)

\* The positions of the speed-bearing points nearest in time to t.
NearestSpeedPoints(t) ==
    {j \in 1..Len(SpeedBearingPoints) :
        \A k \in 1..Len(SpeedBearingPoints) :
            Abs(SpeedBearingPoints[j].timestamp - t)
                <= Abs(SpeedBearingPoints[k].timestamp - t)}

\* C23: analyze_movement_patterns joins speed back onto every input row.
\* The output has the rows of the input, each with its own fields; a row
\* with a speed-bearing point within 2 minutes has the speed_mph and the
\* movement_type of a point nearest to it in time, any other row has speed 0
\* and 'stationary'; no row has a null speed or movement type.
C23_SpeedJoinedOntoEveryRow ==
    pc = "movement_done" =>
        /\ Len(result_df.rows) = Len(df.rows)
        /\ \A i \in 1..Len(df.rows) :
               LET row == result_df.rows[i]
                   near == NearestSpeedPoints(row.timestamp)
               IN  /\ \A f \in DOMAIN df.rows[i] : row[f] = df.rows[i][f]
                   /\ ~IsNa(row.speed_mph)
                   /\ row.movement_type
                          \in {"stationary", "driving_slow", "driving_fast"}
                   /\ IF \E j \in near :
                             Abs(SpeedBearingPoints[j].timestamp - row.timestamp)
                                 <= speed_match_tolerance_seconds
                      THEN \E j \in near :
                               /\ row.speed_mph = SpeedBearingPoints[j].speed_mph
                               /\ row.movement_type
                                      = SpeedBearingPoints[j].movement_type
                      ELSE row.speed_mph = 0 /\ row.movement_type = "stationary"

\* C23, witness: an event without location exactly 2 minutes after the
\* last of two location points has that point's speed, above 0.
C23_Witness ==
    /\ pc = "movement_done"
    /\ Len(result_df.rows) = 3
    /\ Len(movement_points) = 2
    /\ result_df.rows[3].location_source = "no_location"
    /\ result_df.rows[3].timestamp
           = movement_points[2].timestamp + speed_match_tolerance_seconds
    /\ result_df.rows[3].speed_mph = result_df.rows[2].speed_mph
    /\ result_df.rows[3].speed_mph > 0

\* C23, second case: an event without location in a frame whose only
\* location point is more than 2 minutes away is stationary at speed 0.
C23_UnmatchedRow ==
    /\ pc = "movement_done"
    /\ Len(movement_points) = 1
    /\ \E i \in 1..Len(result_df.rows) :
           /\ result_df.rows[i].timestamp
                  > movement_points[1].timestamp + speed_match_tolerance_seconds
           /\ result_df.rows[i].speed_mph = 0
           /\ result_df.rows[i].movement_type = "stationary"

\* C24: after analyze_movement_patterns every row's movement_type is one of
\* stationary, driving_slow, driving_fast, unknown, and when it is not
\* 'unknown' it agrees with the row's speed_mph: stationary iff speed < 3
\* mph, driving_slow iff 3 <= speed < 35 mph, driving_fast iff speed >= 35.
C24_MovementTypeAgreesWithSpeed ==
    pc = "movement_done" =>
        \A i \in 1..Len(result_df.rows) :
            LET row == result_df.rows[i]
            IN  /\ row.movement_type
                       \in {"stationary", "driving_slow", "driving_fast", "unknown"}
                /\ row.movement_type # "unknown" =>
                       /\ row.movement_type = "stationary"
                              <=> row.speed_mph < stationary_speed_threshold
                       /\ row.movement_type = "driving_slow"
                              <=> /\ row.speed_mph >= stationary_speed_threshold
                                  /\ row.speed_mph < slow_driving_threshold
                       /\ row.movement_type = "driving_fast"
                              <=> row.speed_mph >= slow_driving_threshold

\* C24, witness: a frame with a stationary row at speed 0, a row driving
\* fast and an event without location that takes over the fast speed.
C24_Witness ==
    /\ pc = "movement_done"
    /\ Len(result_df.rows) = 3
    /\ result_df.rows[1].movement_type = "stationary"
    /\ result_df.rows[2].movement_type = "driving_fast"
    /\ result_df.rows[2].speed_mph >= slow_driving_threshold
    /\ result_df.rows[3].location_source = "no_location"
    /\ result_df.rows[3].movement_type = "driving_fast"

\* C24, second case: a row driving slowly, between the two thresholds.
C24_DrivingSlow ==
    /\ pc = "movement_done"
    /\ \E i \in 1..Len(result_df.rows) :
           /\ result_df.rows[i].movement_type = "driving_slow"
           /\ result_df.rows[i].speed_mph > stationary_speed_threshold
           /\ result_df.rows[i].speed_mph < slow_driving_threshold

\* The positions of the frame's located rows: both coordinates non-null and
\* a location source of the merger ('location_tracking' or 'timeline_data').
LocatedPositions ==
    {i \in 1..Len(df.rows) :
        /\ ~IsNa(df.rows[i].latitude)
        /\ ~IsNa(df.rows[i].longitude)
        /\ df.rows[i].location_source \in {"location_tracking", "timeline_data"}}

\* The located points, one per (timestamp, latitude, longitude).
LocatedPoints ==
    RowsAt(df.rows,
           {i \in LocatedPositions :
               \A j \in LocatedPositions :
                   j < i => FixKey(df.rows[j]) # FixKey(df.rows[i])})

\* Those of them whose accuracy is null or at most max_gps_accuracy.
AccuratePoints ==
    RowsAt(LocatedPoints,
           {i \in 1..Len(LocatedPoints) :
               \/ IsNa(LocatedPoints[i].accuracy)
               \/ LocatedPoints[i].accuracy <= max_gps_accuracy})

\* C25: the points the speed computation uses are the located points whose
\* accuracy is null or <= max_gps_accuracy when there are at least 2 of
\* them, and otherwise all located points, including those with an accuracy
\* worse than the maximum.
C25_AccuracyFilterNeedsTwoPoints ==
    (pc = "movement_done" /\ LocatedPositions # {}) =>
        movement_points = IF Len(AccuratePoints) >= 2
                          THEN AccuratePoints
                          ELSE LocatedPoints

\* C25, witness: of three located points two are accurate enough, one of
\* them exactly at the maximum, and one is worse: the two are used.
C25_Witness ==
    /\ pc = "movement_done"
    /\ Len(LocatedPoints) = 3
    /\ Len(AccuratePoints) = 2
    /\ \E i \in 1..2 : AccuratePoints[i].accuracy = max_gps_accuracy
    /\ \E i \in 1..3 : LocatedPoints[i].accuracy > max_gps_accuracy
    /\ movement_points = AccuratePoints

\* C25, second case: only one of three located points is accurate enough,
\* and all three are used.
C25_AllPointsUsed ==
    /\ pc = "movement_done"
    /\ Len(LocatedPoints) = 3
    /\ Len(AccuratePoints) = 1
    /\ movement_points = LocatedPoints

-----------------------------------------------------------------------------
(* A further claim about the speed computation (SpecSpeeds) *)

\* C26: for every time-sorted list of location points, every speed emitted
\* by _calculate_speeds is between 0 and max_reasonable_speed, and no speed
\* is computed by dividing by a zero or negative elapsed time: a point less
\* than min_time_diff_seconds after the point before it, also one sharing
\* its timestamp, repeats the speed emitted before it.
C26_SpeedsBoundedNoZeroDivision ==
    pc = "speeds_done" =>
        /\ Len(speeds) = Len(df.rows)
        /\ \A i \in 1..Len(speeds) :
               speeds[i] >= 0 /\ speeds[i] <= max_reasonable_speed
        /\ \A i \in 2..Len(df.rows) :
               ElapsedAt(i) < min_time_diff_seconds =>
                   speeds[i] = speeds[i - 1]

\* C26, witness: three points, the second at another place at the first's
\* own timestamp (speed 0 repeated), the third far enough away for a
\* computed speed above max_reasonable_speed, which is not emitted.
C26_Witness ==
    /\ pc = "speeds_done"
    /\ Len(df.rows) = 3
    /\ ElapsedAt(2) = 0
    /\ df.rows[2].latitude # df.rows[1].latitude
    /\ speeds[2] = 0
    /\ ElapsedAt(3) >= min_time_diff_seconds
    /\ ComputedSpeedAt(3) > max_reasonable_speed
    /\ speeds[3] = 0

-----------------------------------------------------------------------------
(* A further claim about the merger (SpecMerge) *)

\* C27: in every merged event returned by merge_timeline_and_locations,
\* latitude and longitude are either both null or both non-null, also when
\* the timeline event carried only one of the two, and for every location
\* stream argument (non-empty, empty or none).
C27_BothCoordinatesOrNeither ==
    pc = "merged" =>
        \A i \in 1..Len(merged_data.rows) :
            IsNa(merged_data.rows[i].latitude) <=> IsNa(merged_data.rows[i].longitude)

-----------------------------------------------------------------------------
(* A further claim about the session metadata (SpecSessions) *)

\* The event with index label idx opened or closed the session at position
\* n of app_sessions.
OpensOrCloses(idx, n) ==
    \/ /\ app_sessions[n].start_row = idx
       /\ EventRow(idx).time_annotation = "start"
    \/ /\ app_sessions[n].end_row = idx
       /\ EventRow(idx).time_annotation = "end"

\* C28: after analyze_app_usage_duration has attached the session metadata,
\* every event with a non-null session_id is the start-annotated event that
\* opened the session with that id or the end-annotated event that closed
\* it, and its app_session_duration is that session's duration_seconds;
\* events that are neither have a null session_id and app_session_duration.
C28_SessionMetadataOnStartAndEnd ==
    (pc = "sessions_done" /\ Len(app_sessions) # 0) =>
        \A i \in 1..Len(result_df.rows) :
            LET row == result_df.rows[i]
            IN  /\ ~IsNa(row.session_id) =>
                       /\ row.session_id + 1 \in 1..Len(app_sessions)
                       /\ OpensOrCloses(row.index, row.session_id + 1)
                       /\ row.app_session_duration
                              = app_sessions[row.session_id + 1].duration_seconds
                /\ (\A n \in 1..Len(app_sessions) : ~OpensOrCloses(row.index, n)) =>
                       /\ IsNa(row.session_id)
                       /\ IsNa(row.app_session_duration)

-----------------------------------------------------------------------------
(* Further claims about a command-line run (Spec) *)

\* run_analysis returns False in this step.
AnalysisFails ==
    /\ pc = "analyze"
    /\ stage_log' = Append(stage_log, Stage("run_analysis", FALSE))

\* C29: if run_analysis returns False because an analysis stage raised, the
\* orchestrator's stored merged_data is exactly what it was before the call.
C29_FailedAnalysisKeepsStoredTable ==
    [][AnalysisFails => merged_data' = merged_data]_vars

\* C29, witness: the movement analysis raised after the session analysis
\* had found a session; run_analysis returned False and the stored table
\* has its events without any analysis column.
C29_Witness ==
    /\ pc = "exit"
    /\ Len(stage_log) = 2
    /\ stage_log[2] = Stage("run_analysis", FALSE)
    /\ Len(app_sessions) > 0
    /\ Len(merged_data.rows) > 0
    /\ \A i \in 1..Len(merged_data.rows) :
           /\ "forensic_priority" \notin DOMAIN merged_data.rows[i]
           /\ "session_id" \notin DOMAIN merged_data.rows[i]

\* The run has no location stream and analyze has stored its result: every
\* event of the stored table is tagged 'timeline_only' and has its speed.
TimelineOnlyAnalyzed ==
    /\ location_data.is_none
    /\ ~merged_data.is_none
    /\ Len(merged_data.rows) > 0
    /\ \A i \in 1..Len(merged_data.rows) :
           /\ merged_data.rows[i].location_source = "timeline_only"
           /\ "speed_mph" \in DOMAIN merged_data.rows[i]

\* C30: in timeline-only mode the movement analysis gives every event
\* speed_mph = 0 and movement_type = 'stationary', also an event with
\* coordinates of its own; no event is counted as phone use while driving
\* and no session is flagged as driving.
C30_TimelineOnlyIsStationary ==
    TimelineOnlyAnalyzed =>
        /\ \A i \in 1..Len(merged_data.rows) :
               /\ merged_data.rows[i].speed_mph = 0
               /\ merged_data.rows[i].movement_type = "stationary"
        /\ phone_while_driving = <<>>
        /\ app_sessions_while_driving = <<>>

\* C30, witness: a timeline-only run whose two events have coordinates of
\* their own, 10 millidegrees apart in 120 s (about 20.7 mph), are tagged
\* as active social media use and form one session.
C30_Witness ==
    /\ TimelineOnlyAnalyzed
    /\ Len(merged_data.rows) = 2
    /\ \A i \in 1..2 :
           /\ ~IsNa(merged_data.rows[i].latitude)
           /\ ~IsNa(merged_data.rows[i].longitude)
           /\ merged_data.rows[i].forensic_priority \in HIGH_PRIORITY
    /\ merged_data.rows[1].latitude # merged_data.rows[2].latitude
    /\ Len(app_sessions) = 1

=============================================================================
